---- MODULE Spec2Model ----
(***************************************************************************)
(* Receipt normalisation pipeline of backend/ai_processor.py               *)
(* (ReceiptAIProcessor): text sanitizer, lenient JSON parser, extraction   *)
(* fallback, field validator, cross-validator and the retry loop of        *)
(* process_receipt.                                                        *)
(*                                                                         *)
(* Representation.  Text is a TLA+ string; characters are its one-letter   *)
(* substrings.  Indices into text are Python's (0-based, -1 = not found).  *)
(* Decimal numbers (amounts, confidence) are fixed-point integers in       *)
(* hundredths: 0.2 is 20, 10000 is 1000000.  Python's binary floating      *)
(* point rounding is not modelled.  A decoded JSON value is a tagged       *)
(* record: [t |-> "null"], [t |-> "bool", b], [t |-> "num", n],            *)
(* [t |-> "str", s], [t |-> "list", l], [t |-> "obj", o]; a Python dict is *)
(* a function from key strings to such values.  A string literal of the    *)
(* language cannot hold a backquote: in modelled text the character "~"    *)
(* stands for the backquote of a markdown fence.                           *)
(***************************************************************************)
EXTENDS Integers, Sequences, FiniteSets, TLC

------------------------------------------------------------------------------
(* Characters and Python's str primitives *)

Ch(s, i) == IF i >= 1 /\ i <= Len(s) THEN SubSeq(s, i, i) ELSE ""

Digits == {"0", "1", "2", "3", "4", "5", "6", "7", "8", "9"}

DigitVal(c) ==
    CASE c = "0" -> 0 [] c = "1" -> 1 [] c = "2" -> 2 [] c = "3" -> 3
      [] c = "4" -> 4 [] c = "5" -> 5 [] c = "6" -> 6 [] c = "7" -> 7
      [] c = "8" -> 8 [] c = "9" -> 9

LowerLetters ==
    {"a", "b", "c", "d", "e", "f", "g", "h", "i", "j", "k", "l", "m",
     "n", "o", "p", "q", "r", "s", "t", "u", "v", "w", "x", "y", "z"}

UpperLetters ==
    {"A", "B", "C", "D", "E", "F", "G", "H", "I", "J", "K", "L", "M",
     "N", "O", "P", "Q", "R", "S", "T", "U", "V", "W", "X", "Y", "Z"}

\* \w of the re module, on the ASCII range
WordChars == Digits \cup LowerLetters \cup UpperLetters \cup {"_"}

\* \s of the re module and the characters str.strip() removes, on the ASCII range
SpaceChars == {" ", "\n", "\t", "\r"}

\* str.find(c): the 0-based index of the first occurrence of c, or -1
Find(s, c) ==
    LET hits == {i \in 1..Len(s) : Ch(s, i) = c}
    IN  IF hits = {} THEN -1
        ELSE (CHOOSE i \in hits : \A j \in hits : i <= j) - 1

\* str.rfind(c): the 0-based index of the last occurrence of c, or -1
RFind(s, c) ==
    LET hits == {i \in 1..Len(s) : Ch(s, i) = c}
    IN  IF hits = {} THEN -1
        ELSE (CHOOSE i \in hits : \A j \in hits : i >= j) - 1

\* s[a:b] for 0 <= a <= b
Slice(s, a, b) == SubSeq(s, a + 1, b)

StartsWithAt(s, i, p) == i + Len(p) - 1 <= Len(s) /\ SubSeq(s, i, i + Len(p) - 1) = p

\* the first 1-based index >= i whose character is not whitespace (Len(s)+1 if none)
RECURSIVE SkipSpace(_, _)
SkipSpace(s, i) == IF Ch(s, i) \in SpaceChars THEN SkipSpace(s, i + 1) ELSE i

\* the first 1-based index >= i whose character is not a word character
RECURSIVE SkipWord(_, _)
SkipWord(s, i) == IF Ch(s, i) \in WordChars THEN SkipWord(s, i + 1) ELSE i

\* the least element of a non-empty set of integers
MinOf(S) == CHOOSE j \in S : \A k \in S : j <= k

\* str.strip()
Strip(s) ==
    LET keep == {i \in 1..Len(s) : Ch(s, i) \notin SpaceChars}
    IN  IF keep = {} THEN ""
        ELSE SubSeq(s, CHOOSE i \in keep : \A j \in keep : i <= j,
                       CHOOSE i \in keep : \A j \in keep : i >= j)

\* keep the characters of s that satisfy the class (a set of characters)
RECURSIVE KeepChars(_, _)
KeepChars(s, class) ==
    IF s = "" THEN ""
    ELSE (IF Ch(s, 1) \in class THEN Ch(s, 1) ELSE "") \o KeepChars(Tail(s), class)

\* remove the characters of s that are in the class
RECURSIVE DropChars(_, _)
DropChars(s, class) ==
    IF s = "" THEN ""
    ELSE (IF Ch(s, 1) \in class THEN "" ELSE Ch(s, 1)) \o DropChars(Tail(s), class)

------------------------------------------------------------------------------
(* re.sub for the seven patterns of _clean_response_text and
   _fix_common_json_issues.  A pattern is named by a tag; MatchEnd gives the
   1-based index after the match that starts at index j (0 when the pattern
   does not match there), Replacement the text that replaces it. *)

\* the three backquotes of a markdown fence
Fence == "~~~"

AtLineStart(s, i) == i = 1 \/ Ch(s, i - 1) = "\n"

AtLineEnd(s, i) == i > Len(s) \/ Ch(s, i) = "\n"

\* the index of the closing single quote after index j, or 0
NextSingleQuote(s, j) ==
    LET closers == {k \in (j + 1)..Len(s) : Ch(s, k) = "'"}
    IN  IF closers = {} THEN 0 ELSE MinOf(closers)

MatchEnd(pattern, s, j) ==
    CASE pattern = "open_fence" ->       \* r'^```(?:json)?\s*' with re.MULTILINE
           IF AtLineStart(s, j) /\ StartsWithAt(s, j, Fence)
           THEN SkipSpace(s, IF StartsWithAt(s, j + 3, "json") THEN j + 7 ELSE j + 3)
           ELSE 0
      [] pattern = "close_fence" ->      \* r'\s*```$' with re.MULTILINE
           IF /\ Ch(s, j) \in SpaceChars \cup {Ch(Fence, 1)}
              /\ StartsWithAt(s, SkipSpace(s, j), Fence)
              /\ AtLineEnd(s, SkipSpace(s, j) + 3)
           THEN SkipSpace(s, j) + 3
           ELSE 0
      [] pattern = "comma_brace" ->      \* r',\s*}'
           IF Ch(s, j) = "," /\ Ch(s, SkipSpace(s, j + 1)) = "}"
           THEN SkipSpace(s, j + 1) + 1
           ELSE 0
      [] pattern = "comma_bracket" ->    \* r',\s*]'
           IF Ch(s, j) = "," /\ Ch(s, SkipSpace(s, j + 1)) = "]"
           THEN SkipSpace(s, j + 1) + 1
           ELSE 0
      [] pattern = "unescaped_quote" ->  \* r'(?<!\\)"(?=[^,}\]]*[,}\]])'
           IF /\ Ch(s, j) = "\""
              /\ Ch(s, j - 1) # "\\"
              /\ \E k \in (j + 1)..Len(s) : Ch(s, k) \in {",", "}", "]"}
           THEN j + 1
           ELSE 0
      [] pattern = "bare_key" ->         \* r'(\w+):'
           IF Ch(s, j) \in WordChars /\ Ch(s, SkipWord(s, j)) = ":"
           THEN SkipWord(s, j) + 1
           ELSE 0
      [] pattern = "single_quoted" ->    \* r"'([^']*)'"
           IF Ch(s, j) = "'" /\ NextSingleQuote(s, j) # 0
           THEN NextSingleQuote(s, j) + 1
           ELSE 0
      [] pattern = "trailing_comma" ->   \* r',(\s*[}\]])'
           IF Ch(s, j) = "," /\ Ch(s, SkipSpace(s, j + 1)) \in {"}", "]"}
           THEN SkipSpace(s, j + 1) + 1
           ELSE 0

\* the replacement of the match s[j..end-1]
Replacement(pattern, s, j, end) ==
    CASE pattern \in {"open_fence", "close_fence"} -> ""
      [] pattern = "comma_brace" -> "}"
      [] pattern = "comma_bracket" -> "]"
      [] pattern = "unescaped_quote" -> "\\\""
      [] pattern = "bare_key" -> "\"" \o SubSeq(s, j, end - 2) \o "\":"
      [] pattern = "single_quoted" -> "\"" \o SubSeq(s, j + 1, end - 2) \o "\""
      [] pattern = "trailing_comma" -> SubSeq(s, j + 1, end - 1)

\* the scan of re.sub from index i on: the leftmost match at or after i is
\* replaced and the scan goes on after it; starts holds the indices where
\* the pattern matches
RECURSIVE ReSubFrom(_, _, _, _)
ReSubFrom(pattern, s, i, starts) ==
    LET later == {j \in starts : j >= i}
        m == MinOf(later)
        end == MatchEnd(pattern, s, m)
    IN  IF later = {} THEN SubSeq(s, i, Len(s))
        ELSE SubSeq(s, i, m - 1) \o Replacement(pattern, s, m, end)
                 \o ReSubFrom(pattern, s, end, starts)

\* re.sub(pattern, repl, s)
ReSub(pattern, s) ==
    ReSubFrom(pattern, s, 1, {j \in 1..Len(s) : MatchEnd(pattern, s, j) # 0})

------------------------------------------------------------------------------
(* _clean_response_text *)

\* lines 225-229: the span from the first '{' to the last '}'
BraceSpan(text) ==
    LET start_idx == Find(text, "{")
        end_idx == RFind(text, "}")
    IN  IF start_idx # -1 /\ end_idx # -1 /\ end_idx > start_idx
        THEN Slice(text, start_idx, end_idx + 1)
        ELSE text

\* a sanitizer without the test of line 216 for the empty text
CleanWithoutEmptyTest(text) ==
    ReSub("comma_bracket", ReSub("comma_brace",
        Strip(BraceSpan(ReSub("close_fence", ReSub("open_fence", text))))))

_clean_response_text(text) ==
    IF text = "" THEN "{}"
    ELSE ReSub("comma_bracket", ReSub("comma_brace",
             Strip(BraceSpan(ReSub("close_fence", ReSub("open_fence", text))))))

------------------------------------------------------------------------------
(* _fix_common_json_issues: the repair chain *)

_fix_common_json_issues(text) ==
    ReSub("trailing_comma", ReSub("single_quoted",
        ReSub("bare_key", ReSub("unescaped_quote", text))))

------------------------------------------------------------------------------
(* json.loads, on the JSON the responses of the model use: objects, arrays,
   strings with the escapes \" \\ \/ \n \t \r, decimal numbers without an
   exponent, true, false and null.  Python's extensions NaN and Infinity, the
   escapes \b \f \uXXXX and exponents are outside the modelled texts. *)

JNull == [t |-> "null"]
JBool(b) == [t |-> "bool", b |-> b]
\* n in hundredths; f is TRUE for a Python float, FALSE for a Python int
JNum(n, f) == [t |-> "num", n |-> n, f |-> f]
JFloat(n) == JNum(n, TRUE)
JStr(s) == [t |-> "str", s |-> s]
JList(l) == [t |-> "list", l |-> l]
JObj(o) == [t |-> "obj", o |-> o]

EmptyDict == [k \in {} |-> JNull]

ParseFail == [ok |-> FALSE]
ParseOk(v, next) == [ok |-> TRUE, v |-> v, next |-> next]

\* the first 1-based index >= i whose character is not a digit
RECURSIVE SkipDigits(_, _)
SkipDigits(s, i) == IF Ch(s, i) \in Digits THEN SkipDigits(s, i + 1) ELSE i

\* the value of a string of digits
RECURSIVE IntOf(_)
IntOf(s) ==
    IF s = "" THEN 0
    ELSE 10 * IntOf(SubSeq(s, 1, Len(s) - 1)) + DigitVal(Ch(s, Len(s)))

\* the hundredths a fraction's digits denote (digits after the second are dropped)
FracOf(s) ==
    IF s = "" THEN 0
    ELSE IF Len(s) = 1 THEN 10 * DigitVal(Ch(s, 1))
    ELSE 10 * DigitVal(Ch(s, 1)) + DigitVal(Ch(s, 2))

\* a string body from index i (after the opening quote) to its closing quote
RECURSIVE ScanString(_, _, _)
ScanString(s, i, acc) ==
    IF i > Len(s) THEN ParseFail
    ELSE LET c == Ch(s, i)
             e == Ch(s, i + 1)
         IN  IF c = "\"" THEN ParseOk(acc, i + 1)
             ELSE IF c = "\\"
                  THEN IF e \in {"\"", "\\", "/"} THEN ScanString(s, i + 2, acc \o e)
                       ELSE IF e = "n" THEN ScanString(s, i + 2, acc \o "\n")
                       ELSE IF e = "t" THEN ScanString(s, i + 2, acc \o "\t")
                       ELSE IF e = "r" THEN ScanString(s, i + 2, acc \o "\r")
                       ELSE ParseFail
             ELSE IF c \in {"\n", "\t", "\r"} THEN ParseFail
             ELSE ScanString(s, i + 1, acc \o c)

\* NUMBER_RE of json.scanner: (-?(?:0|[1-9]\d*))(\.\d+)? matched at index i
ScanNumber(s, i) ==
    LET neg == Ch(s, i) = "-"
        a == IF neg THEN i + 1 ELSE i
        b == IF Ch(s, a) = "0" THEN a + 1 ELSE SkipDigits(s, a)
        hasFrac == Ch(s, b) = "." /\ Ch(s, b + 1) \in Digits
        c == IF hasFrac THEN SkipDigits(s, b + 1) ELSE b
        mag == 100 * IntOf(SubSeq(s, a, b - 1))
                 + (IF hasFrac THEN FracOf(SubSeq(s, b + 1, c - 1)) ELSE 0)
    IN  IF Ch(s, a) \notin Digits THEN ParseFail
        ELSE ParseOk(JNum(IF neg THEN -mag ELSE mag, hasFrac), c)

RECURSIVE ParseValue(_, _)
RECURSIVE ParseMembers(_, _, _)
RECURSIVE ParseElements(_, _, _)

\* the pairs of an object from index j (the first key) on; a later pair
\* replaces an earlier one with the same key
ParseMembers(s, j, acc) ==
    IF Ch(s, j) # "\"" THEN ParseFail
    ELSE LET k == ScanString(s, j + 1, "")
         IN  IF ~k.ok THEN ParseFail
             ELSE LET c == SkipSpace(s, k.next)
                  IN  IF Ch(s, c) # ":" THEN ParseFail
                      ELSE LET v == ParseValue(s, SkipSpace(s, c + 1))
                           IN  IF ~v.ok THEN ParseFail
                               ELSE LET acc2 == (k.v :> v.v) @@ acc
                                        e == SkipSpace(s, v.next)
                                    IN  IF Ch(s, e) = "}" THEN ParseOk(JObj(acc2), e + 1)
                                        ELSE IF Ch(s, e) = ","
                                             THEN ParseMembers(s, SkipSpace(s, e + 1), acc2)
                                        ELSE ParseFail

\* the elements of an array from index j (the first element) on
ParseElements(s, j, acc) ==
    LET v == ParseValue(s, j)
    IN  IF ~v.ok THEN ParseFail
        ELSE LET acc2 == Append(acc, v.v)
                 e == SkipSpace(s, v.next)
             IN  IF Ch(s, e) = "]" THEN ParseOk(JList(acc2), e + 1)
                 ELSE IF Ch(s, e) = "," THEN ParseElements(s, SkipSpace(s, e + 1), acc2)
                 ELSE ParseFail

ParseValue(s, i) ==
    LET c == Ch(s, i)
    IN  IF c = "\""
        THEN LET r == ScanString(s, i + 1, "")
             IN  IF r.ok THEN ParseOk(JStr(r.v), r.next) ELSE ParseFail
        ELSE IF c = "{"
        THEN LET j == SkipSpace(s, i + 1)
             IN  IF Ch(s, j) = "}" THEN ParseOk(JObj(EmptyDict), j + 1)
                 ELSE ParseMembers(s, j, EmptyDict)
        ELSE IF c = "["
        THEN LET j == SkipSpace(s, i + 1)
             IN  IF Ch(s, j) = "]" THEN ParseOk(JList(<<>>), j + 1)
                 ELSE ParseElements(s, j, <<>>)
        ELSE IF StartsWithAt(s, i, "null") THEN ParseOk(JNull, i + 4)
        ELSE IF StartsWithAt(s, i, "true") THEN ParseOk(JBool(TRUE), i + 4)
        ELSE IF StartsWithAt(s, i, "false") THEN ParseOk(JBool(FALSE), i + 5)
        ELSE IF c \in Digits \cup {"-"} THEN ScanNumber(s, i)
        ELSE ParseFail

\* json.loads(text): [ok |-> TRUE, v |-> value], or [ok |-> FALSE] where
\* Python raises json.JSONDecodeError
json_loads(text) ==
    LET r == ParseValue(text, SkipSpace(text, 1))
    IN  IF r.ok /\ SkipSpace(text, r.next) > Len(text)
        THEN [ok |-> TRUE, v |-> r.v]
        ELSE [ok |-> FALSE]

------------------------------------------------------------------------------
(* Python values: dicts, truthiness, str(), int(), exceptions *)

\* the outcome of a call: a returned value, or a raised exception
Return(v) == [ok |-> TRUE, v |-> v]
Raise(type, msg) == [ok |-> FALSE, exc |-> [type |-> type, msg |-> msg]]

IsStr(v) == v.t = "str"

\* dict[k] = v, dict.get(k, default) and k in dict
DictSet(d, k, v) == (k :> v) @@ d
DictGet(d, k, default) == IF k \in DOMAIN d THEN d[k] ELSE default

\* bool(v)
Truthy(v) ==
    CASE v.t = "null" -> FALSE
      [] v.t = "bool" -> v.b
      [] v.t = "num" -> v.n # 0
      [] v.t = "str" -> v.s # ""
      [] v.t = "list" -> v.l # <<>>
      [] v.t = "obj" -> DOMAIN v.o # {}

\* type(v).__name__, as Python's error messages print it
TypeName(v) ==
    CASE v.t = "null" -> "NoneType"
      [] v.t = "bool" -> "bool"
      [] v.t = "num" -> IF v.f THEN "float" ELSE "int"
      [] v.t = "str" -> "str"
      [] v.t = "list" -> "list"
      [] v.t = "obj" -> "dict"

LowerAlphabet == "abcdefghijklmnopqrstuvwxyz"
UpperAlphabet == "ABCDEFGHIJKLMNOPQRSTUVWXYZ"

\* str.lower() and str.upper(), on the ASCII range
RECURSIVE Lower(_)
Lower(s) ==
    IF s = "" THEN ""
    ELSE (IF Ch(s, 1) \in UpperLetters
          THEN Ch(LowerAlphabet, Find(UpperAlphabet, Ch(s, 1)) + 1)
          ELSE Ch(s, 1)) \o Lower(Tail(s))

RECURSIVE Upper(_)
Upper(s) ==
    IF s = "" THEN ""
    ELSE (IF Ch(s, 1) \in LowerLetters
          THEN Ch(UpperAlphabet, Find(LowerAlphabet, Ch(s, 1)) + 1)
          ELSE Ch(s, 1)) \o Upper(Tail(s))

AllIn(s, class) == \A i \in 1..Len(s) : Ch(s, i) \in class

\* the decimal digits of a natural number
RECURSIVE DigitStr(_)
DigitStr(n) ==
    IF n < 10 THEN Ch("0123456789", n + 1)
    ELSE DigitStr(n \div 10) \o Ch("0123456789", (n % 10) + 1)

Pad2(n) == IF n < 10 THEN "0" \o DigitStr(n) ELSE DigitStr(n)

Pad4(n) ==
    IF n < 10 THEN "000" \o DigitStr(n)
    ELSE IF n < 100 THEN "00" \o DigitStr(n)
    ELSE IF n < 1000 THEN "0" \o DigitStr(n)
    ELSE DigitStr(n)

Abs(n) == IF n < 0 THEN -n ELSE n
Max(a, b) == IF a >= b THEN a ELSE b
Min(a, b) == IF a <= b THEN a ELSE b

\* str(x) of a float x given in hundredths: "5.0", "5.5", "5.25"
FormatFloat(n) ==
    (IF n < 0 THEN "-" ELSE "") \o DigitStr(Abs(n) \div 100) \o "."
        \o (IF Abs(n) % 10 = 0 THEN DigitStr((Abs(n) % 100) \div 10)
            ELSE Pad2(Abs(n) % 100))

\* str(v); the repr of a non-empty list or dict is abbreviated
StrOf(v) ==
    CASE v.t = "null" -> "None"
      [] v.t = "bool" -> IF v.b THEN "True" ELSE "False"
      [] v.t = "num" -> IF v.f THEN FormatFloat(v.n)
                        ELSE (IF v.n < 0 THEN "-" ELSE "") \o DigitStr(Abs(v.n) \div 100)
      [] v.t = "str" -> v.s
      [] v.t = "list" -> IF v.l = <<>> THEN "[]" ELSE "[...]"
      [] v.t = "obj" -> IF DOMAIN v.o = {} THEN "{}" ELSE "{...}"

\* int(v): truncation of a number, the integer a string of digits denotes
IntOfValue(v) ==
    CASE v.t = "num" -> Return(IF v.n < 0 THEN -(Abs(v.n) \div 100) ELSE v.n \div 100)
      [] v.t = "bool" -> Return(IF v.b THEN 1 ELSE 0)
      [] v.t = "str" ->
           LET st == Strip(v.s)
               signed == Ch(st, 1) \in {"-", "+"}
               ds == IF signed THEN Tail(st) ELSE st
           IN  IF ds # "" /\ AllIn(ds, Digits)
               THEN Return(IF Ch(st, 1) = "-" THEN -IntOf(ds) ELSE IntOf(ds))
               ELSE Raise("ValueError",
                          "invalid literal for int() with base 10: '" \o v.s \o "'")
      [] OTHER -> Raise("TypeError",
                        "int() argument must be a string, a bytes-like object or a real number, not '"
                            \o TypeName(v) \o "'")

------------------------------------------------------------------------------
(* _clean_numeric_value *)

\* float(s) for s made of digits, '.' and '-': [ok, n] with n in hundredths
FloatOfStr(s) ==
    LET neg == Ch(s, 1) = "-"
        body == IF neg THEN Tail(s) ELSE s
        dot == Find(body, ".")
        whole == IF dot = -1 THEN body ELSE Slice(body, 0, dot)
        frac == IF dot = -1 THEN "" ELSE Slice(body, dot + 1, Len(body))
        mag == 100 * IntOf(whole) + FracOf(frac)
    IN  IF AllIn(whole, Digits) /\ AllIn(frac, Digits) /\ whole \o frac # ""
        THEN [ok |-> TRUE, n |-> IF neg THEN -mag ELSE mag]
        ELSE [ok |-> FALSE]

_clean_numeric_value(value, field_name) ==
    LET default == IF field_name = "confidence" THEN JFloat(50) ELSE JFloat(0)
        cleaned == KeepChars(DropChars(value.s, {","}), Digits \cup {".", "-"})
        parsed == FloatOfStr(cleaned)
        clamp(n) == IF field_name = "confidence" THEN JFloat(Max(0, Min(100, n)))
                    ELSE JFloat(Max(0, n))
    IN  IF value.t = "null" \/ (value.t = "str" /\ value.s = "") THEN default
        ELSE IF value.t = "str"
             THEN IF cleaned = "" THEN default
                  ELSE IF parsed.ok THEN clamp(parsed.n)
                  ELSE default
        ELSE IF value.t = "num" THEN clamp(value.n)
        ELSE IF value.t = "bool" THEN clamp(IF value.b THEN 100 ELSE 0)
        ELSE default

------------------------------------------------------------------------------
(* _validate_date and _validate_time: datetime.strptime and strftime *)

\* datetime.now().strftime("%Y-%m-%d"): the clock reading of the call
Today == "2026-11-01"

\* s.split(sep) when it has exactly n parts, else <<>>
SplitN(s, sep, n) ==
    LET cuts == {i \in 1..Len(s) : Ch(s, i) = sep}
        lo == CHOOSE i \in cuts : \A j \in cuts : i <= j
        hi == CHOOSE i \in cuts : \A j \in cuts : i >= j
    IN  IF Cardinality(cuts) # n - 1 THEN <<>>
        ELSE IF n = 2 THEN <<SubSeq(s, 1, lo - 1), SubSeq(s, lo + 1, Len(s))>>
        ELSE <<SubSeq(s, 1, lo - 1), SubSeq(s, lo + 1, hi - 1), SubSeq(s, hi + 1, Len(s))>>

NonZeroDigits == Digits \ {"0"}

\* the directive's regular expression of _strptime matches the whole of p
MatchDirective(d, p) ==
    LET a == Ch(p, 1)
        b == Ch(p, 2)
    IN  CASE d = "Y" -> Len(p) = 4 /\ AllIn(p, Digits)
          [] d \in {"m", "I"} ->
               \/ Len(p) = 2 /\ a = "1" /\ b \in {"0", "1", "2"}
               \/ Len(p) = 2 /\ a = "0" /\ b \in NonZeroDigits
               \/ Len(p) = 1 /\ a \in NonZeroDigits
          [] d = "d" ->
               \/ Len(p) = 2 /\ a = "3" /\ b \in {"0", "1"}
               \/ Len(p) = 2 /\ a \in {"1", "2"} /\ b \in Digits
               \/ Len(p) = 2 /\ a = "0" /\ b \in NonZeroDigits
               \/ Len(p) = 1 /\ a \in NonZeroDigits
               \/ Len(p) = 2 /\ a = " " /\ b \in NonZeroDigits
          [] d = "H" ->
               \/ Len(p) = 2 /\ a = "2" /\ b \in {"0", "1", "2", "3"}
               \/ Len(p) = 2 /\ a \in {"0", "1"} /\ b \in Digits
               \/ Len(p) = 1 /\ a \in Digits
          [] d = "M" ->
               \/ Len(p) = 2 /\ a \in {"0", "1", "2", "3", "4", "5"} /\ b \in Digits
               \/ Len(p) = 1 /\ a \in Digits
          [] d = "S" ->
               \/ Len(p) = 2 /\ a = "6" /\ b \in {"0", "1"}
               \/ Len(p) = 2 /\ a \in {"0", "1", "2", "3", "4", "5"} /\ b \in Digits
               \/ Len(p) = 1 /\ a \in Digits

IsLeap(y) == y % 4 = 0 /\ (y % 100 # 0 \/ y % 400 = 0)

DaysInMonth(y, m) ==
    IF m = 2 THEN (IF IsLeap(y) THEN 29 ELSE 28)
    ELSE IF m \in {4, 6, 9, 11} THEN 30
    ELSE 31

\* date_formats of _validate_date: the separator and the order of the directives
date_formats ==
    << [sep |-> "-", order |-> <<"Y", "m", "d">>],
       [sep |-> "/", order |-> <<"m", "d", "Y">>],
       [sep |-> "/", order |-> <<"d", "m", "Y">>],
       [sep |-> "-", order |-> <<"m", "d", "Y">>],
       [sep |-> "-", order |-> <<"d", "m", "Y">>],
       [sep |-> "/", order |-> <<"Y", "m", "d">>] >>

\* datetime.strptime(s, fmt) for a date format: [ok, y, m, d]; ok is FALSE
\* where strptime raises ValueError
StrptimeDate(s, fmt) ==
    LET parts == SplitN(s, fmt.sep, 3)
        at(d) == parts[CHOOSE i \in 1..3 : fmt.order[i] = d]
        y == IntOf(at("Y"))
        m == IntOf(at("m"))
        d == IntOf(DropChars(at("d"), {" "}))
    IN  IF /\ parts # <<>>
           /\ \A i \in 1..3 : MatchDirective(fmt.order[i], parts[i])
           /\ y >= 1
           /\ d <= DaysInMonth(y, m)
        THEN [ok |-> TRUE, y |-> y, m |-> m, d |-> d]
        ELSE [ok |-> FALSE]

\* strftime("%Y-%m-%d"); the C library decides whether %Y pads a year
\* below 1000 with zeros (pad) or prints it as it is (glibc)
StrftimeDate(y, m, d, pad) ==
    (IF pad THEN Pad4(y) ELSE DigitStr(y)) \o "-" \o Pad2(m) \o "-" \o Pad2(d)

\* the loop over date_formats, from format i on
RECURSIVE TryDateFormats(_, _, _)
TryDateFormats(s, i, pad) ==
    IF i > Len(date_formats) THEN Today
    ELSE LET r == StrptimeDate(s, date_formats[i])
         IN  IF r.ok THEN StrftimeDate(r.y, r.m, r.d, pad)
             ELSE TryDateFormats(s, i + 1, pad)

_validate_date(date_str, pad) ==
    IF ~Truthy(date_str) \/ ~IsStr(date_str) THEN Today
    ELSE TryDateFormats(Strip(date_str.s), 1, pad)

\* strptime for "%H:%M", "%I:%M %p" and "%H:%M:%S": [ok, h, m] in 24-hour time
StrptimeTime(s, fmt) ==
    LET two == SplitN(s, ":", 2)
        three == SplitN(s, ":", 3)
        sp == {i \in 1..Len(two[2]) : Ch(two[2], i) \in SpaceChars}
        cut == CHOOSE i \in sp : \A j \in sp : i <= j
        minute == SubSeq(two[2], 1, cut - 1)
        ampm == Lower(SubSeq(two[2], SkipSpace(two[2], cut), Len(two[2])))
        h12 == IntOf(two[1])
    IN  CASE fmt = "%H:%M" ->
               IF two # <<>> /\ MatchDirective("H", two[1]) /\ MatchDirective("M", two[2])
               THEN [ok |-> TRUE, h |-> IntOf(two[1]), m |-> IntOf(two[2])]
               ELSE [ok |-> FALSE]
          [] fmt = "%I:%M %p" ->
               IF /\ two # <<>>
                  /\ sp # {}
                  /\ MatchDirective("I", two[1])
                  /\ MatchDirective("M", minute)
                  /\ ampm \in {"am", "pm"}
               THEN [ok |-> TRUE,
                     h |-> IF ampm = "am" THEN (IF h12 = 12 THEN 0 ELSE h12)
                           ELSE (IF h12 = 12 THEN 12 ELSE h12 + 12),
                     m |-> IntOf(minute)]
               ELSE [ok |-> FALSE]
          [] fmt = "%H:%M:%S" ->
               IF /\ three # <<>>
                  /\ MatchDirective("H", three[1])
                  /\ MatchDirective("M", three[2])
                  /\ MatchDirective("S", three[3])
                  /\ IntOf(three[3]) <= 59   \* datetime rejects second 60 and 61
               THEN [ok |-> TRUE, h |-> IntOf(three[1]), m |-> IntOf(three[2])]
               ELSE [ok |-> FALSE]

time_formats == <<"%H:%M", "%I:%M %p", "%H:%M:%S">>

RECURSIVE TryTimeFormats(_, _)
TryTimeFormats(s, i) ==
    IF i > Len(time_formats) THEN JNull
    ELSE LET r == StrptimeTime(s, time_formats[i])
         IN  IF r.ok THEN JStr(Pad2(r.h) \o ":" \o Pad2(r.m))
             ELSE TryTimeFormats(s, i + 1)

_validate_time(time_str) ==
    IF ~Truthy(time_str) \/ ~IsStr(time_str) THEN JNull
    ELSE TryTimeFormats(Strip(time_str.s), 1)

------------------------------------------------------------------------------
(* _normalize_currency *)

currency_mapping ==
    ("$" :> "USD") @@ ("€" :> "EUR") @@ ("£" :> "GBP") @@ ("¥" :> "JPY")
        @@ ("₹" :> "INR") @@ ("₽" :> "RUB") @@ ("¢" :> "USD")

_normalize_currency(currency) ==
    LET c == Upper(Strip(currency.s))
    IN  IF ~Truthy(currency) \/ ~IsStr(currency) THEN "USD"
        ELSE IF c \in DOMAIN currency_mapping THEN currency_mapping[c]
        ELSE IF Len(c) = 3 /\ AllIn(c, UpperLetters) THEN c
        ELSE "USD"

------------------------------------------------------------------------------
(* _validate_items *)

\* the dict literal of the loop body: int() of the quantity may raise
ValidatedItem(item) ==
    LET q == IntOfValue(DictGet(item, "quantity", JNum(100, FALSE)))
    IN  IF ~q.ok THEN q
        ELSE Return(JObj(
               ("name" :> JStr(Strip(StrOf(DictGet(item, "name", JStr("Unknown Item"))))))
            @@ ("quantity" :> JNum(100 * Max(1, q.v), FALSE))
            @@ ("unit_price" :>
                  _clean_numeric_value(DictGet(item, "unit_price", JNum(0, FALSE)), "unit_price"))
            @@ ("total_price" :>
                  _clean_numeric_value(DictGet(item, "total_price", JNum(0, FALSE)), "total_price"))))

\* the loop over items from index i on, validated_items collected so far
RECURSIVE ValidateItemsFrom(_, _, _)
ValidateItemsFrom(items, i, validated_items) ==
    IF i > Len(items) THEN Return(validated_items)
    ELSE IF items[i].t # "obj" THEN ValidateItemsFrom(items, i + 1, validated_items)
    ELSE LET r == ValidatedItem(items[i].o)
         IN  IF ~r.ok THEN r
             ELSE IF r.v.o["name"].s # "" /\ r.v.o["name"].s # "Unknown Item"
                  THEN ValidateItemsFrom(items, i + 1, Append(validated_items, r.v))
                  ELSE ValidateItemsFrom(items, i + 1, validated_items)

\* a loop that goes through the items from the last one to the first
ValidateItemsBackwards(items) ==
    ValidateItemsFrom([i \in 1..Len(items) |-> items[Len(items) + 1 - i]], 1, <<>>)

_validate_items(items) == ValidateItemsFrom(items, 1, <<>>)

------------------------------------------------------------------------------
(* _validate_and_enhance_result *)

\* self.expense_categories: the processor's category table, an attribute that
\* every call on the processor reads
VARIABLE expense_categories

\* the keys of the table that __init__ builds, in order
ExpenseCategories ==
    <<"Food", "Transport", "Utilities", "Shopping", "Entertainment", "Healthcare",
      "Education", "Other">>

get_category_list == {expense_categories[i] : i \in 1..Len(expense_categories)}

category_mapping ==
    ("food & dining" :> "Food") @@ ("restaurant" :> "Food") @@ ("grocery" :> "Food")
        @@ ("gas" :> "Transport") @@ ("fuel" :> "Transport")
        @@ ("medical" :> "Healthcare") @@ ("pharmacy" :> "Healthcare")
        @@ ("retail" :> "Shopping") @@ ("store" :> "Shopping")

required_fields ==
    <<"merchant_name", "transaction_date", "total_amount", "currency", "category",
      "confidence">>

RequiredDefault(field) ==
    CASE field = "merchant_name" -> JStr("Unknown")
      [] field = "transaction_date" -> JStr(Today)
      [] field = "total_amount" -> JFloat(0)
      [] field = "currency" -> JStr("USD")
      [] field = "category" -> JStr("Other")
      [] field = "confidence" -> JFloat(50)

\* for field, default in required_fields.items(), from field i on
RECURSIVE FillRequired(_, _)
FillRequired(result, i) ==
    IF i > Len(required_fields) THEN result
    ELSE LET field == required_fields[i]
             missing == \/ field \notin DOMAIN result
                        \/ result[field].t = "null"
                        \/ (result[field].t = "str" /\ result[field].s = "")
         IN  FillRequired(IF missing THEN DictSet(result, field, RequiredDefault(field))
                          ELSE result, i + 1)

CleanMerchant(result) ==
    IF IsStr(result["merchant_name"])
    THEN DictSet(result, "merchant_name",
                 IF Strip(result["merchant_name"].s) = "" THEN JStr("Unknown")
                 ELSE JStr(Strip(result["merchant_name"].s)))
    ELSE result

\* a category normalization that looks the synonym up as it is written
NormalizeCategoryCaseSensitive(result) ==
    LET category == result["category"]
        category_lower == IF IsStr(category) THEN category.s ELSE ""
    IN  IF IsStr(category) /\ category.s \in get_category_list THEN result
        ELSE IF category_lower \in DOMAIN category_mapping
             THEN DictSet(result, "category", JStr(category_mapping[category_lower]))
        ELSE DictSet(result, "category", JStr("Other"))

NormalizeCategory(result) ==
    LET category == result["category"]
        category_lower == IF IsStr(category) THEN Lower(category.s) ELSE ""
    IN  IF IsStr(category) /\ category.s \in get_category_list THEN result
        ELSE IF category_lower \in DOMAIN category_mapping
             THEN DictSet(result, "category", JStr(category_mapping[category_lower]))
        ELSE DictSet(result, "category", JStr("Other"))

numeric_fields ==
    <<"total_amount", "subtotal", "tax_amount", "tip_amount", "discount_amount",
      "confidence">>

RECURSIVE CleanNumericFields(_, _)
CleanNumericFields(result, i) ==
    IF i > Len(numeric_fields) THEN result
    ELSE LET field == numeric_fields[i]
         IN  CleanNumericFields(
                 IF field \in DOMAIN result
                 THEN DictSet(result, field, _clean_numeric_value(result[field], field))
                 ELSE result, i + 1)

\* the TypeError of the first statement that uses a decoded value that is no dict
NotADictError(value) ==
    IF value.t = "list"
    THEN Raise("TypeError", "list indices must be integers or slices, not str")
    ELSE IF value.t = "str"
    THEN IF \E i \in 1..Len(value.s) : StartsWithAt(value.s, i, "merchant_name")
         THEN Raise("TypeError", "string indices must be integers, not 'str'")
         ELSE Raise("TypeError", "'str' object does not support item assignment")
    ELSE Raise("TypeError", "argument of type '" \o TypeName(value) \o "' is not iterable")

ValidateDate(result, pad) ==
    DictSet(result, "transaction_date",
            JStr(_validate_date(result["transaction_date"], pad)))

ValidateTime(result) ==
    IF "transaction_time" \in DOMAIN result /\ Truthy(result["transaction_time"])
    THEN DictSet(result, "transaction_time", _validate_time(result["transaction_time"]))
    ELSE result

NormalizeCurrency(result) ==
    DictSet(result, "currency", JStr(_normalize_currency(result["currency"])))

\* result["items"] = the validated items, unless validating them raised
StoreItems(result, items) ==
    IF items.ok THEN Return(DictSet(result, "items", JList(items.v))) ELSE items

ValidateItems(result) ==
    IF "items" \in DOMAIN result /\ result["items"].t = "list"
    THEN StoreItems(result, _validate_items(result["items"].l))
    ELSE Return(result)

\* result is the decoded value; pad is the C library's padding of %Y
_validate_and_enhance_result(result, pad) ==
    IF result.t # "obj" THEN NotADictError(result)
    ELSE ValidateItems(NormalizeCurrency(ValidateTime(ValidateDate(
             CleanNumericFields(NormalizeCategory(CleanMerchant(
                 FillRequired(result.o, 1))), 1), pad))))

------------------------------------------------------------------------------
(* _cross_validate_data *)

RECURSIVE SumTotalPrice(_)
SumTotalPrice(items) ==
    IF items = <<>> THEN 0
    ELSE DictGet(Head(items).o, "total_price", JNum(0, FALSE)).n + SumTotalPrice(Tail(items))

\* sum(confidence_adjustments)
RECURSIVE SumSeq(_)
SumSeq(q) == IF q = <<>> THEN 0 ELSE Head(q) + SumSeq(Tail(q))

MismatchNote == " Items total doesn't match receipt total."

\* the exception of iterating an items value that is not a list
ItemsNotAListError(items) ==
    IF items.t \in {"str", "obj"}
    THEN Raise("AttributeError", "'str' object has no attribute 'get'")
    ELSE Raise("TypeError", "'" \o TypeName(items) \o "' object is not iterable")

\* The amounts are binary floating-point numbers.  An amount in hundredths is
\* held exactly only when its cents are 00, 25, 50 or 75; any other amount is
\* held rounded, and a difference_ratio that equals the threshold in decimal
\* comes out just above it or just below it: abs(0.33 - 0.3) / 0.3 is
\* 0.10000000000000009, abs(3.3 - 3.0) / 3.0 is 0.09999999999999994.
\* ties_round_up is the side on which it comes out.  Only the records of
\* UnitSpec have a ratio on a threshold; no response text of the other
\* specifications has one.
VARIABLE ties_round_up

HeldExactly(amounts) == \A i \in 1..Len(amounts) : amounts[i] % 25 = 0

RECURSIVE TotalPrices(_)
TotalPrices(items) ==
    IF items = <<>> THEN <<>>
    ELSE <<DictGet(Head(items).o, "total_price", JNum(0, FALSE)).n>> \o TotalPrices(Tail(items))

\* difference_ratio > 1 / parts, where difference_ratio is difference / total
RatioExceeds(difference, total, parts, amounts) ==
    \/ parts * difference > total
    \/ parts * difference = total /\ ~HeldExactly(amounts) /\ ties_round_up

\* the items-total check: difference_ratio > 0.1
ItemsMismatch(result) ==
    LET items_total == SumTotalPrice(result["items"].l)
        receipt_total == DictGet(result, "total_amount", JNum(0, FALSE)).n
    IN  /\ "items" \in DOMAIN result
        /\ Truthy(result["items"])
        /\ result["items"].t = "list"
        /\ items_total > 0
        /\ receipt_total > 0
        /\ RatioExceeds(Abs(items_total - receipt_total), receipt_total, 10,
                        TotalPrices(result["items"].l) \o <<receipt_total>>)

\* the subtotal check: difference_ratio > 0.05
SubtotalMismatch(result) ==
    LET subtotal == DictGet(result, "subtotal", JNum(0, FALSE)).n
        tax == DictGet(result, "tax_amount", JNum(0, FALSE)).n
        total == DictGet(result, "total_amount", JNum(0, FALSE)).n
        expected_total == subtotal + tax + DictGet(result, "tip_amount", JNum(0, FALSE)).n
                              - DictGet(result, "discount_amount", JNum(0, FALSE)).n
    IN  /\ subtotal > 0
        /\ total > 0
        /\ RatioExceeds(Abs(expected_total - total), total, 20,
                        <<subtotal, tax, total,
                          DictGet(result, "tip_amount", JNum(0, FALSE)).n,
                          DictGet(result, "discount_amount", JNum(0, FALSE)).n>>)

\* the penalties, with a bonus for a record whose merchant is known
BonusForKnownMerchant(result) ==
    (IF ItemsMismatch(result) THEN <<-20>> ELSE <<>>)
 \o (IF SubtotalMismatch(result) THEN <<-10>> ELSE <<>>)
 \o (IF DictGet(result, "total_amount", JNum(0, FALSE)).n > 1000000
     THEN <<-10>> ELSE <<>>)
 \o (IF "merchant_name" \in DOMAIN result
         /\ IsStr(result["merchant_name"])
         /\ result["merchant_name"].s = "Unknown"
     THEN <<-20>> ELSE <<5>>)

\* the penalties with the items-total penalty halved
HalvedItemsPenalty(result) ==
    (IF ItemsMismatch(result) THEN <<-10>> ELSE <<>>)
 \o (IF SubtotalMismatch(result) THEN <<-10>> ELSE <<>>)
 \o (IF DictGet(result, "total_amount", JNum(0, FALSE)).n > 1000000
     THEN <<-10>> ELSE <<>>)
 \o (IF "merchant_name" \in DOMAIN result
         /\ IsStr(result["merchant_name"])
         /\ result["merchant_name"].s = "Unknown"
     THEN <<-20>> ELSE <<>>)

\* lines 489-520: the penalties the four checks append, in their order
confidence_adjustments(result) ==
    (IF ItemsMismatch(result) THEN <<-20>> ELSE <<>>)
 \o (IF SubtotalMismatch(result) THEN <<-10>> ELSE <<>>)
 \o (IF DictGet(result, "total_amount", JNum(0, FALSE)).n > 1000000
     THEN <<-10>> ELSE <<>>)
 \o (IF "merchant_name" \in DOMAIN result
         /\ IsStr(result["merchant_name"])
         /\ result["merchant_name"].s = "Unknown"
     THEN <<-20>> ELSE <<>>)

\* a cross-validation that writes the note over the notes of the record
CrossValidateReplacingNotes(result) ==
    LET original_confidence == DictGet(result, "confidence", JFloat(50)).n
        noted == IF ItemsMismatch(result)
                 THEN DictSet(result, "extraction_notes", JStr(MismatchNote))
                 ELSE result
        final_confidence == original_confidence + SumSeq(confidence_adjustments(result))
    IN  Return(DictSet(noted, "confidence", JFloat(Max(0, Min(100, final_confidence)))))

_cross_validate_data(result) ==
    LET original_confidence == DictGet(result, "confidence", JFloat(50)).n
        notes == DictGet(result, "extraction_notes", JStr(""))
        noted == IF ItemsMismatch(result)
                 THEN DictSet(result, "extraction_notes", JStr(notes.s \o MismatchNote))
                 ELSE result
        final_confidence == original_confidence + SumSeq(confidence_adjustments(result))
    IN  IF "items" \in DOMAIN result /\ Truthy(result["items"])
            /\ result["items"].t # "list"
        THEN ItemsNotAListError(result["items"])
        ELSE IF ItemsMismatch(result) /\ ~IsStr(notes)
        THEN Raise("TypeError",
                   IF notes.t = "list"
                   THEN "can only concatenate list (not \"str\") to list"
                   ELSE "unsupported operand type(s) for +: '" \o TypeName(notes)
                            \o "' and 'str'")
        ELSE Return(DictSet(noted, "confidence",
                            JFloat(Max(0, Min(100, final_confidence)))))

------------------------------------------------------------------------------
(* _create_fallback_result, _extract_json_from_text, _parse_json_response *)

\* a fallback record that drops the error's message from its notes
FallbackWithoutMessage(error_message) ==
    ("merchant_name" :> JStr("Unknown"))
        @@ ("transaction_date" :> JStr(Today))
        @@ ("total_amount" :> JFloat(0))
        @@ ("currency" :> JStr("USD"))
        @@ ("category" :> JStr("Other"))
        @@ ("confidence" :> JFloat(10))
        @@ ("extraction_notes" :> JStr("Processing failed"))

_create_fallback_result(error_message) ==
    ("merchant_name" :> JStr("Unknown"))
        @@ ("transaction_date" :> JStr(Today))
        @@ ("total_amount" :> JFloat(0))
        @@ ("currency" :> JStr("USD"))
        @@ ("category" :> JStr("Other"))
        @@ ("confidence" :> JFloat(10))
        @@ ("extraction_notes" :> JStr("Processing failed: " \o error_message))

\* the decoded span from the first '{' to the last '}', else the Fallback Record
_extract_json_from_text(text) ==
    LET start == Find(text, "{")
        end == RFind(text, "}") + 1
        decoded == json_loads(Slice(text, start, end))
    IN  IF start # -1 /\ end > start /\ decoded.ok THEN decoded.v
        ELSE JObj(_create_fallback_result("Failed to parse AI response"))

_parse_json_response(text) ==
    LET first == json_loads(text)
        fixed == json_loads(_fix_common_json_issues(text))
    IN  IF first.ok THEN first.v
        ELSE IF fixed.ok THEN fixed.v
        ELSE _extract_json_from_text(text)

------------------------------------------------------------------------------
(* One attempt of process_receipt on a non-empty response text, lines 152-168 *)

\* the cross-validated record, unless validation raised
CrossValidated(validated) ==
    IF validated.ok THEN _cross_validate_data(validated.v) ELSE validated

process_once(text, pad) ==
    CrossValidated(_validate_and_enhance_result(
        _parse_json_response(_clean_response_text(Strip(text))), pad))

------------------------------------------------------------------------------
(* The behaviours of the external model: self.model.generate_content and
   response.text.  A call raises, or returns a response whose text is one of
   the texts below (the empty text included). *)

\* the number of distinct messages a transport failure of the model call carries
NumErrMsgs == 2

ErrMsgs == {"transport failure " \o DigitStr(i) : i \in 1..NumErrMsgs}

\* {...} around the members, separated by ", "
RECURSIVE JoinMembers(_)
JoinMembers(members) ==
    IF members = <<>> THEN ""
    ELSE LET rest == JoinMembers(Tail(members))
         IN  IF Head(members) = "" THEN rest
             ELSE IF rest = "" THEN Head(members)
             ELSE Head(members) \o ", " \o rest

ObjectText(members) == "{" \o JoinMembers(members) \o "}"

\* a receipt the model read well: the members of its JSON object
BaseMembers ==
    [merchant_name |-> "\"merchant_name\": \"Cafe\"",
     transaction_date |-> "\"transaction_date\": \"2024-01-15\"",
     transaction_time |-> "\"transaction_time\": \"14:30\"",
     total_amount |-> "\"total_amount\": 20.00",
     currency |-> "\"currency\": \"USD\"",
     category |-> "\"category\": \"Food\"",
     items |-> "\"items\": [{\"name\": \"Latte\", \"quantity\": 2, \"unit_price\": 10.00, \"total_price\": 20.00}]",
     confidence |-> "\"confidence\": 0.95",
     extraction_notes |-> ""]

\* what the model may write instead for one member ("" leaves the member out)
Variants ==
    [merchant_name |-> {"", "\"merchant_name\": \"  \"", "\"merchant_name\": 5",
                        "\"merchant_name\": null", "\"merchant_name\": [\"Cafe\"]"},
     transaction_date |-> {"", "\"transaction_date\": \"31/02/2024\"",
                           "\"transaction_date\": \"01/02/2024\"",
                           "\"transaction_date\": \"13-02-2024\"",
                           "\"transaction_date\": \"0099-01-01\"",
                           "\"transaction_date\": 20240115",
                           "\"transaction_date\": null"},
     transaction_time |-> {"", "\"transaction_time\": \"2:30 PM\"",
                           "\"transaction_time\": \"25:00\""},
     total_amount |-> {"", "\"total_amount\": \"$12,000.50\"", "\"total_amount\": -5",
                       "\"total_amount\": \"abc\"", "\"total_amount\": [20]"},
     currency |-> {"", "\"currency\": \"$\"", "\"currency\": \" eur \"",
                   "\"currency\": \"dollars\"", "\"currency\": 5"},
     category |-> {"", "\"category\": \"grocery\"", "\"category\": \"spaceship fuel\"",
                   "\"category\": 7", "\"category\": \"food\"", "\"category\": null"},
     items |-> {"", "\"items\": []", "\"items\": \"none\"",
                "\"items\": [{\"name\": \"Latte\", \"quantity\": null}]",
                "\"items\": [5, {\"name\": \"Tea\", \"quantity\": 0.5, \"total_price\": \"19.50\"}, {\"total_price\": 3}]"},
     confidence |-> {"", "\"confidence\": 1.5", "\"confidence\": -0.3",
                     "\"confidence\": \"high\"", "\"confidence\": null",
                     "\"confidence\": \"0.9\""},
     extraction_notes |-> {"\"extraction_notes\": \"Clear receipt\"",
                           "\"extraction_notes\": null"}]

MemberOrder ==
    <<"merchant_name", "transaction_date", "transaction_time", "total_amount", "currency",
      "category", "items", "confidence", "extraction_notes">>

RecordText(members) == ObjectText([i \in 1..Len(MemberOrder) |-> members[MemberOrder[i]]])

\* the good receipt with one member written differently
OneMemberTexts ==
    {RecordText([BaseMembers EXCEPT ![k] = v]) :
        k \in {MemberOrder[i] : i \in 1..Len(MemberOrder)}, v \in {""}} \cup
    UNION {{RecordText([BaseMembers EXCEPT ![k] = v]) : v \in Variants[k]} :
              k \in DOMAIN Variants}

\* receipts that draw each combination of the cross-validator's four penalties,
\* at low and high confidence, with and without notes to append to
PenaltyTexts ==
    {ObjectText(<<m, t, i, s, c, n>>) :
        m \in {"\"merchant_name\": \"Cafe\"", "\"merchant_name\": \"Unknown\""},
        t \in {"\"total_amount\": 20.00", "\"total_amount\": 10000.01"},
        i \in {"", "\"items\": [{\"name\": \"Latte\", \"total_price\": 10.0}]"},
        s \in {"", "\"subtotal\": 30.00, \"tax_amount\": 1.50"},
        c \in {"\"confidence\": 0", "\"confidence\": 0.1", "\"confidence\": 0.95"},
        n \in {""}} \cup
    {ObjectText(<<"\"merchant_name\": \"Cafe\"", "\"total_amount\": 20.00",
                  "\"items\": [{\"name\": \"Latte\", \"total_price\": 10.0}]", c, n>>) :
        c \in {"\"confidence\": 0.2", "\"confidence\": 0.25", "\"confidence\": 1"},
        n \in {"", "\"extraction_notes\": \"Blurry\""}} \cup
    {ObjectText(<<"\"merchant_name\": \"Cafe\"", "\"total_amount\": 20.00",
                  "\"items\": [{\"name\": \"Latte\", \"total_price\": 10.0}]",
                  "\"confidence\": 1.5", "\"extraction_notes\": null">>)}

RepairText == "The answer is: {\"merchant_name\": 'Cafe', total_amount: 5.00,}"

\* prose, fences, repairable and undecodable text, values that are no object
SpecialTexts ==
    {"", "   ", "{}", "not json at all", RepairText,
     "~~~json\n" \o RecordText(BaseMembers) \o "\n~~~",
     "Here is the receipt: {\"merchant_name\": \"Cafe\", \"total_amount\": 5.00} Thanks!",
     "{\"merchant_name\": \"Cafe\", \"total_amount\": 5.00,}",
     "{'merchant_name': 'Cafe', 'total_amount': 5.00}",
     "{\"merchant_name\": \"Cafe\"",
     "[1]"}

Texts == SpecialTexts \cup OneMemberTexts \cup PenaltyTexts

Responses ==
    [kind : {"raise"}, type : {"ConnectionError"}, msg : ErrMsgs] \cup
    [kind : {"raise"}, type : {"JSONDecodeError"}, msg : {"Expecting value"}] \cup
    [kind : {"text"}, text : Texts]

------------------------------------------------------------------------------
(* process_receipt: the retry loop *)

max_retries == 3

VARIABLES
    pc,             \* the statement process_receipt is at
    attempt,        \* the loop variable of "for attempt in range(max_retries)"
    history,        \* what the model did at each invocation so far, in order
    response_text,  \* the local response_text: unbound until line 152 runs
    result,         \* the local result
    last_error,     \* the local last_error
    exc,            \* the exception in flight while pc = "except"
    ret,            \* the value returned to the caller
    file,           \* the upload of the HTTP request being served, if any
    status_code,    \* the status of the HTTP response, 0 until it is sent
    running,        \* the process_receipt call that the variables above belong to
    suspended       \* the locals of the other call on the processor, if any

vars == <<pc, attempt, history, response_text, result, last_error, exc, ret, file,
          status_code, running, suspended, expense_categories, ties_round_up>>

None == [t |-> "null"]
Unbound == [bound |-> FALSE]
Bound(s) == [bound |-> TRUE, s |-> s]
NoError == [type |-> "none", msg |-> ""]

\* no HTTP request is being served: process_receipt was called directly
NoFile == [content_type |-> JNull, filename |-> JNull, size |-> 0, image |-> FALSE]

\* there is no other call on the processor
NoCall == [pc |-> "none"]

\* the number of invocations of the model so far
calls == Len(history)

\* the response of the current attempt
response == history[Len(history)]

Init ==
    /\ ties_round_up = FALSE
    /\ expense_categories = ExpenseCategories
    /\ pc = "invoke"
    /\ attempt = 0
    /\ history = <<>>
    /\ response_text = Unbound
    /\ result = None
    /\ last_error = NoError
    /\ exc = NoError
    /\ ret = None
    /\ file = NoFile
    /\ status_code = 0
    /\ running = 1
    /\ suspended = NoCall

\* line 147: generate_content raises
InvokeRaises ==
    /\ pc = "invoke"
    /\ \E r \in Responses :
          /\ r.kind = "raise"
          /\ history' = Append(history, r)
          /\ exc' = [type |-> r.type, msg |-> r.msg]
    /\ pc' = "except"
    /\ UNCHANGED <<attempt, response_text, result, last_error, ret, file, status_code, running, suspended,
                   expense_categories, ties_round_up>>

\* line 147: generate_content returns a response
InvokeReturns ==
    /\ pc = "invoke"
    /\ \E r \in Responses :
          /\ r.kind = "text"
          /\ history' = Append(history, r)
    /\ pc' = "respond"
    /\ UNCHANGED <<attempt, response_text, result, last_error, exc, ret, file, status_code, running, suspended,
                   expense_categories, ties_round_up>>

\* lines 149-153: an empty text raises ValueError, else response_text is bound
CheckResponse ==
    /\ pc = "respond"
    /\ IF response.text = ""
       THEN /\ exc' = [type |-> "ValueError", msg |-> "Empty response from AI model"]
            /\ pc' = "except"
            /\ UNCHANGED response_text
       ELSE /\ response_text' = Bound(Strip(response.text))
            /\ pc' = "clean"
            /\ UNCHANGED exc
    /\ UNCHANGED <<attempt, history, result, last_error, ret, file, status_code, running, suspended,
                   expense_categories, ties_round_up>>

\* line 156
Clean ==
    /\ pc = "clean"
    /\ response_text' = Bound(_clean_response_text(response_text.s))
    /\ pc' = "parse"
    /\ UNCHANGED <<attempt, history, result, last_error, exc, ret, file, status_code, running, suspended,
                   expense_categories, ties_round_up>>

\* line 159
Parse ==
    /\ pc = "parse"
    /\ result' = _parse_json_response(response_text.s)
    /\ pc' = "validate"
    /\ UNCHANGED <<attempt, history, response_text, last_error, exc, ret, file, status_code, running, suspended,
                   expense_categories, ties_round_up>>

\* the assignment "result = f(...)" inside the try block: r is the outcome of
\* the call, next the statement that follows it
AssignResult(r, next) ==
    IF r.ok
    THEN /\ result' = JObj(r.v)
         /\ pc' = next
         /\ UNCHANGED exc
    ELSE /\ exc' = r.exc
         /\ pc' = "except"
         /\ UNCHANGED result

\* line 162
Validate ==
    /\ pc = "validate"
    /\ \E pad \in BOOLEAN :
          AssignResult(_validate_and_enhance_result(result, pad), "cross")
    /\ UNCHANGED <<attempt, history, response_text, last_error, ret, file, status_code, running, suspended,
                   expense_categories, ties_round_up>>

\* line 165
CrossValidate ==
    /\ pc = "cross"
    /\ AssignResult(_cross_validate_data(result.o), "return")
    /\ UNCHANGED <<attempt, history, response_text, last_error, ret, file, status_code, running, suspended,
                   expense_categories, ties_round_up>>

\* a loop that does not return at line 168 until its attempts are used up
ReturnRecordAfterLastAttempt ==
    /\ pc = "return"
    /\ IF attempt < max_retries - 1
       THEN /\ attempt' = attempt + 1
            /\ pc' = "invoke"
            /\ UNCHANGED ret
       ELSE /\ ret' = result
            /\ pc' = "returned_record"
            /\ UNCHANGED attempt
    /\ UNCHANGED <<history, response_text, result, last_error, exc, file, status_code, running, suspended,
                   expense_categories, ties_round_up>>

\* lines 167-168
ReturnRecord ==
    /\ pc = "return"
    /\ ret' = result
    /\ pc' = "returned_record"
    /\ UNCHANGED <<attempt, history, response_text, result, last_error, exc, file, status_code, running, suspended,
                   expense_categories, ties_round_up>>

\* lines 170-176: except json.JSONDecodeError.  On the last attempt the
\* handler reads response_text, which is unbound unless some attempt of this
\* call reached line 152: reading it then raises UnboundLocalError
HandleJSONDecodeError ==
    /\ pc = "except"
    /\ exc.type = "JSONDecodeError"
    /\ last_error' = exc
    /\ IF attempt < max_retries - 1
       THEN /\ attempt' = attempt + 1
            /\ pc' = "invoke"
            /\ exc' = NoError
            /\ UNCHANGED ret
       ELSE IF response_text.bound
       THEN /\ ret' = _extract_json_from_text(response_text.s)
            /\ pc' = "returned_extracted"
            /\ exc' = NoError
            /\ UNCHANGED attempt
       ELSE /\ exc' = [type |-> "UnboundLocalError",
                       msg |-> "cannot access local variable 'response_text' where it is not associated with a value"]
            /\ pc' = "raised"
            /\ UNCHANGED <<attempt, ret>>
    /\ UNCHANGED <<history, response_text, result, file, status_code, running, suspended,
                   expense_categories, ties_round_up>>

\* lines 178-182: except Exception
HandleException ==
    /\ pc = "except"
    /\ exc.type # "JSONDecodeError"
    /\ last_error' = exc
    /\ exc' = NoError
    /\ IF attempt < max_retries - 1
       THEN /\ attempt' = attempt + 1
            /\ pc' = "invoke"
       ELSE /\ pc' = "exhausted"
            /\ UNCHANGED attempt
    /\ UNCHANGED <<history, response_text, result, ret, file, status_code, running, suspended,
                   expense_categories, ties_round_up>>

\* lines 184-186: all retries failed
ReturnFallback ==
    /\ pc = "exhausted"
    /\ ret' = JObj(_create_fallback_result(last_error.msg))
    /\ pc' = "returned_error_record"
    /\ UNCHANGED <<attempt, history, response_text, result, last_error, exc, file, status_code, running, suspended,
                   expense_categories, ties_round_up>>

Next ==
    \/ InvokeRaises
    \/ InvokeReturns
    \/ CheckResponse
    \/ Clean
    \/ Parse
    \/ Validate
    \/ CrossValidate
    \/ ReturnRecord
    \/ HandleJSONDecodeError
    \/ HandleException
    \/ ReturnFallback

Spec == Init /\ [][Next]_vars

------------------------------------------------------------------------------
(* Two process_receipt calls in progress on one ReceiptAIProcessor.  The
   locals of the running call are the variables pc .. ret; those of the other
   call are the record suspended.  A switch may happen between any two
   statements (the coarsest assumption on the scheduler: asyncio switches
   only at an await).  self.expense_categories belongs to the processor and
   is the same variable for both calls. *)

\* the locals of the running call, lines 133-186
Locals ==
    [pc |-> pc, attempt |-> attempt, history |-> history,
     response_text |-> response_text, result |-> result, last_error |-> last_error,
     exc |-> exc, ret |-> ret]

\* the locals of a call that has not started
FreshLocals ==
    [pc |-> "invoke", attempt |-> 0, history |-> <<>>, response_text |-> Unbound,
     result |-> None, last_error |-> NoError, exc |-> NoError, ret |-> None]

\* a call is over once it returned or raised
Finished(p) == p \in {"returned_record", "returned_extracted", "returned_error_record",
                      "raised"}

\* a response_text that is an attribute of the processor, not a local of a call
ProcessorResponseText == response_text

\* line 152: response_text is a local, the resumed call finds its own
ResumedResponseText == suspended.response_text

\* what the model answers in the two-call runs
TwoCallResponses ==
    {[kind |-> "raise", type |-> "ConnectionError", msg |-> "transport failure 1"],
     [kind |-> "raise", type |-> "JSONDecodeError", msg |-> "Expecting value"],
     [kind |-> "text", text |-> RecordText(BaseMembers)],
     [kind |-> "text", text |-> "not json at all"]}

TwoCallInit ==
    /\ ties_round_up = FALSE
    /\ expense_categories = ExpenseCategories
    /\ pc = "invoke"
    /\ attempt = 0
    /\ history = <<>>
    /\ response_text = Unbound
    /\ result = None
    /\ last_error = NoError
    /\ exc = NoError
    /\ ret = None
    /\ file = NoFile
    /\ status_code = 0
    /\ running = 1
    /\ suspended = FreshLocals

\* the running call takes a step of process_receipt
RunningCallSteps ==
    /\ Next
    /\ history' # history => history'[Len(history')] \in TwoCallResponses

\* the scheduler suspends the running call and resumes the other one
Switch ==
    /\ ~Finished(suspended.pc)
    /\ suspended' = Locals
    /\ running' = 3 - running
    /\ pc' = suspended.pc
    /\ attempt' = suspended.attempt
    /\ history' = suspended.history
    /\ response_text' = ResumedResponseText
    /\ result' = suspended.result
    /\ last_error' = suspended.last_error
    /\ exc' = suspended.exc
    /\ ret' = suspended.ret
    /\ UNCHANGED <<file, status_code, expense_categories, ties_round_up>>

TwoCallNext ==
    \/ RunningCallSteps
    \/ Switch

TwoCallSpec == TwoCallInit /\ [][TwoCallNext]_vars

------------------------------------------------------------------------------
(* _validate_and_enhance_result and _cross_validate_data called on a decoded
   value, as lines 162 and 165 call them: the value is drawn from the
   records below, result holds the argument and then what the call returned,
   exc the exception of a call that raised. *)

\* a decoded object with one member
OneField(field, value) == JObj(field :> value)

\* what a model may write for the category
CategoryValues ==
    {JStr(c) : c \in get_category_list}
        \cup {JStr(k) : k \in DOMAIN category_mapping}
        \cup {JStr(Upper(k)) : k \in DOMAIN category_mapping}
        \cup {JStr(c) : c \in {"Grocery", "Gas", "Fuel", "Pharmacy", "Food & Dining",
                               "food", "OTHER", "groceries", " grocery ", "gasoline",
                               "spaceship fuel", ""}}
        \cup {JNull, JBool(TRUE), JNum(700, FALSE), JList(<<JStr("Food")>>),
              JObj("name" :> JStr("Food"))}

\* what a model may write for the date
DateValues ==
    {JStr(d) : d \in {"2024-01-15", "2024-1-5", " 2024-01-15 ", "2024-02-29",
                      "2023-02-29", "2024-02-30", "2024-13-01", "2024-00-10",
                      "01/02/2024", "13/02/2024", "02/13/2024", "31/02/2024",
                      "1/2/2024", "00/01/2024", "02-13-2024", "13-02-2024",
                      "12-11-2024", "31-04-2024", "2024/01/15", "2024/31/12",
                      "0099-01-01", "01/01/0999", "999-01-01", "24-01-15",
                      "15 Jan 2024", "2024.01.15", "today", ""}}
        \cup {JNull, JBool(TRUE), JNum(2024011500, FALSE), JList(<<JStr("2024-01-15")>>)}

\* a value of each JSON type
TypeValues ==
    {JNull, JBool(FALSE), JBool(TRUE), JNum(0, FALSE), JNum(500, FALSE), JNum(-300, FALSE),
     JFloat(150), JFloat(-30), JStr(""), JStr("  "), JStr("abc"), JStr("12.50"),
     JStr("$1,200.50"), JStr("-"), JList(<<>>), JList(<<JNum(2000, FALSE)>>),
     JObj(EmptyDict), JObj("a" :> JNum(100, FALSE))}

\* what a model may write for the quantity of an item
QuantityValues ==
    {JNull, JBool(TRUE), JNum(300, FALSE), JNum(0, FALSE), JNum(-200, FALSE), JFloat(250),
     JFloat(50), JFloat(-50), JStr("3"), JStr(" 4 "), JStr("two"), JStr("2.5"), JStr(""),
     JList(<<>>), JObj(EmptyDict)}

\* an items list with one item whose member field has the value v
OneItem(field, v) ==
    JList(<<JObj(("name" :> JStr("Latte")) @@ ("total_price" :> JFloat(2000))
                     @@ (field :> v))>>)

ItemsValues ==
    {OneItem("quantity", v) : v \in QuantityValues}
        \cup {OneItem("name", v) : v \in TypeValues \cup {JStr("Unknown Item")}}
        \cup {OneItem("unit_price", v) : v \in TypeValues}
        \cup {JList(<<v>>) : v \in TypeValues}
        \cup TypeValues

\* a receipt whose item (20.00) differs from its total (50.00), with each
\* kind of extraction_notes
MismatchRecords ==
    {JObj(("total_amount" :> JFloat(5000)) @@ ("items" :> OneItem("name", JStr("Latte")))
              @@ ("extraction_notes" :> v)) : v \in TypeValues}
        \cup {JObj(("total_amount" :> JFloat(5000))
                       @@ ("items" :> OneItem("name", JStr("Latte"))))}

\* total amounts in hundredths: none, small ones with and without cents that a
\* float holds exactly, and the ones around 10000
ThresholdTotals == {0, 20, 300, 2000, 1000000, 1000020}

\* receipts of total t on, next to and away from each threshold of the
\* cross-validator: an item that is the total, 10% off it, a cent more than
\* 10% off it; a subtotal (with or without tax) 5% off the total and a cent
\* more than that
RecordsOfTotal(t) ==
    {JObj(("merchant_name" :> JStr(m)) @@ ("total_amount" :> JFloat(t))
              @@ ("confidence" :> JFloat(c)) @@ i @@ b) :
        m \in {"Cafe", "Unknown"},
        c \in {0, 10, 95},
        i \in {EmptyDict} \cup
              {"items" :> JList(<<JObj(("name" :> JStr("Latte"))
                                          @@ ("total_price" :> JFloat(price)))>>) :
                  price \in {t, t + t \div 10, t + t \div 10 + 1, t - t \div 10}},
        b \in {EmptyDict} \cup
              {"subtotal" :> JFloat(subtotal) :
                  subtotal \in {t + t \div 20, t + t \div 20 + 1}} \cup
              {("subtotal" :> JFloat(t - t \div 20 - 5)) @@ ("tax_amount" :> JFloat(5))}}

ThresholdRecords == UNION {RecordsOfTotal(t) : t \in ThresholdTotals}

\* what a model may write as an entry of the items list: two named items, a
\* number, an item without a name and items whose name is the sentinel, blank
\* or null
ItemEntries ==
    {JObj(("name" :> JStr("Latte")) @@ ("total_price" :> JFloat(2000))),
     JObj(("name" :> JStr(" Bagel ")) @@ ("quantity" :> JNum(200, FALSE))),
     JNum(500, FALSE),
     JObj("total_price" :> JFloat(300)),
     JObj("name" :> JStr("Unknown Item")),
     JObj("name" :> JStr("  ")),
     JObj("name" :> JNull)}

MaxItems == 3

\* items lists of up to MaxItems entries, repeated entries included
ItemLists ==
    UNION {[1..n -> ItemEntries] : n \in 1..MaxItems}

\* what a model may write for the currency, besides the values of TypeValues
CurrencyValues ==
    {JStr("USD"), JStr("eur"), JStr(" gbp "), JStr("$"), JStr(" € "), JStr("¢"),
     JStr("dollars"), JStr("us"), JStr("U$D"), JStr("us1"), JStr("E U"), JStr("   ")}

DecodedValues ==
    {OneField("category", v) : v \in CategoryValues}
        \cup {OneField("currency", v) : v \in CurrencyValues}
        \cup {OneField("items", JList(l)) : l \in ItemLists}
        \cup MismatchRecords
        \cup ThresholdRecords
        \cup {OneField("transaction_date", v) : v \in DateValues}
        \cup {OneField("items", v) : v \in ItemsValues}
        \cup {OneField(field, v) :
                 field \in {"merchant_name", "total_amount", "subtotal", "currency",
                            "confidence", "transaction_time", "extraction_notes"},
                 v \in TypeValues}
        \cup {JObj(EmptyDict)}

UnitInit ==
    /\ ties_round_up \in BOOLEAN
    /\ expense_categories = ExpenseCategories
    /\ pc = "call_validate"
    /\ result \in DecodedValues
    /\ attempt = 0
    /\ history = <<>>
    /\ response_text = Unbound
    /\ last_error = NoError
    /\ exc = NoError
    /\ ret = None
    /\ file = NoFile
    /\ status_code = 0
    /\ running = 1
    /\ suspended = NoCall

\* result = self._validate_and_enhance_result(result)
CallValidate ==
    /\ pc = "call_validate"
    /\ \E pad \in BOOLEAN :
          AssignResult(_validate_and_enhance_result(result, pad), "call_cross")
    /\ UNCHANGED <<attempt, history, response_text, last_error, ret, file, status_code, running, suspended,
                   expense_categories, ties_round_up>>

\* result = self._cross_validate_data(result)
CallCrossValidate ==
    /\ pc = "call_cross"
    /\ AssignResult(_cross_validate_data(result.o), "done")
    /\ UNCHANGED <<attempt, history, response_text, last_error, ret, file, status_code, running, suspended,
                   expense_categories, ties_round_up>>

UnitNext ==
    \/ CallValidate
    \/ CallCrossValidate

UnitSpec == UnitInit /\ [][UnitNext]_vars

------------------------------------------------------------------------------
(* validate_and_enhance_result of streamlit_app.py: the validator of the
   single-attempt Streamlit pipeline, called on a decoded mapping *)

EXPENSE_CATEGORIES ==
    <<"Food", "Transport", "Utilities", "Shopping", "Entertainment", "Healthcare",
      "Education", "Other">>

\* lines 105-107: a required field that is missing or None gets its default
RECURSIVE SimpleFillRequired(_, _)
SimpleFillRequired(record, i) ==
    IF i > Len(required_fields) THEN record
    ELSE SimpleFillRequired(
             IF required_fields[i] \notin DOMAIN record
                    \/ record[required_fields[i]].t = "null"
             THEN DictSet(record, required_fields[i], RequiredDefault(required_fields[i]))
             ELSE record,
             i + 1)

\* lines 110-112
SimpleCategory(record) ==
    IF IsStr(record["category"])
           /\ \E i \in 1..Len(EXPENSE_CATEGORIES) : record["category"].s = EXPENSE_CATEGORIES[i]
    THEN record
    ELSE DictSet(record, "category", JStr("Other"))

\* lines 118-131: float(value), or the default of the field where float raises
\* ValueError or TypeError; text is decimal digits with an optional sign and
\* point
SimpleFloat(value, field) ==
    IF value.t = "num" THEN JFloat(value.n)
    ELSE IF value.t = "bool" THEN JFloat(IF value.b THEN 100 ELSE 0)
    ELSE IF value.t = "str" /\ FloatOfStr(Strip(value.s)).ok
    THEN JFloat(FloatOfStr(Strip(value.s)).n)
    ELSE IF field = "confidence" THEN JFloat(50)
    ELSE JFloat(0)

\* lines 115-131
RECURSIVE SimpleNumericFields(_, _)
SimpleNumericFields(record, i) ==
    IF i > Len(numeric_fields) THEN record
    ELSE SimpleNumericFields(
             IF numeric_fields[i] \in DOMAIN record
             THEN DictSet(record, numeric_fields[i],
                          SimpleFloat(record[numeric_fields[i]], numeric_fields[i]))
             ELSE record,
             i + 1)

\* lines 136-140: the try block raises ValueError or TypeError
SimpleDateFails(date) ==
    \/ ~IsStr(date)
    \/ date.s = ""
    \/ ~StrptimeDate(date.s, date_formats[1]).ok

\* lines 134-144
SimpleDate(record) ==
    IF SimpleDateFails(record["transaction_date"])
    THEN DictSet(DictSet(record, "transaction_date", JStr(Today)),
                 "confidence", JFloat(Max(0, record["confidence"].n - 20)))
    ELSE record

validate_and_enhance_result(record) ==
    SimpleDate(SimpleNumericFields(SimpleCategory(SimpleFillRequired(record, 1)), 1))

\* what the model may write for the confidence of a receipt
ConfidenceValues ==
    {JFloat(0), JFloat(10), JFloat(20), JFloat(90), JFloat(100), JFloat(150), JFloat(-30),
     JNum(100, FALSE), JStr("0.9"), JStr("high"), JNull, JBool(TRUE), JList(<<>>)}

\* decoded mappings with each kind of date and confidence, present or missing
SimpleValues ==
    {JObj(d @@ c @@ m) :
        d \in {EmptyDict} \cup {"transaction_date" :> v : v \in DateValues},
        c \in {EmptyDict} \cup {"confidence" :> v : v \in ConfidenceValues},
        m \in {EmptyDict, ("category" :> JStr("Food")) @@ ("total_amount" :> JStr("12.50")),
              ("category" :> JStr("grocery")) @@ ("subtotal" :> JNull)}}

SimpleInit ==
    /\ ties_round_up = FALSE
    /\ expense_categories = ExpenseCategories
    /\ pc = "call_simple"
    /\ result \in SimpleValues
    /\ attempt = 0
    /\ history = <<>>
    /\ response_text = Unbound
    /\ last_error = NoError
    /\ exc = NoError
    /\ ret = None
    /\ file = NoFile
    /\ status_code = 0
    /\ running = 1
    /\ suspended = NoCall

\* line 184 of streamlit_app.py: result = validate_and_enhance_result(result)
CallSimpleValidate ==
    /\ pc = "call_simple"
    /\ result' = JObj(validate_and_enhance_result(result.o))
    /\ pc' = "simple_done"
    /\ UNCHANGED <<attempt, history, response_text, last_error, exc, ret, file,
                   status_code, running, suspended, expense_categories, ties_round_up>>

SimpleNext == CallSimpleValidate

SimpleSpec == SimpleInit /\ [][SimpleNext]_vars

------------------------------------------------------------------------------
(* POST /process-receipt of backend/main.py: the handler validates the
   upload, opens the image and awaits ai_processor.process_receipt.  The
   upload is file: its content type and filename (a string or null), the
   number of bytes it holds, and whether PIL can open and verify them. *)

max_file_size == 10 * 1024 * 1024

valid_extensions == {".jpg", ".jpeg", ".png", ".gif", ".bmp", ".webp"}

\* the last component of a path
PathName(path) == Slice(path, RFind(path, "/") + 1, Len(path))

\* Path(filename).suffix: from the last dot of the name on, unless that dot
\* is the first or the last character of the name
PathSuffix(filename) ==
    IF RFind(PathName(filename), ".") > 0
           /\ RFind(PathName(filename), ".") < Len(PathName(filename)) - 1
    THEN Slice(PathName(filename), RFind(PathName(filename), "."), Len(PathName(filename)))
    ELSE ""

\* line 73
file_extension(upload) ==
    IF Truthy(upload.filename) THEN Lower(PathSuffix(upload.filename.s)) ELSE ""

\* a content type check that takes any content type that is present
ContentTypePresent(upload) == Truthy(upload.content_type)

\* line 75
content_type_valid(upload) ==
    Truthy(upload.content_type) /\ StartsWithAt(upload.content_type.s, 1, "image/")

\* line 76
extension_valid(upload) == file_extension(upload) \in valid_extensions

\* HTTPException(status_code, detail)
HTTPException(status, detail) ==
    [type |-> "HTTPException", msg |-> detail, status_code |-> status]

ContentTypes ==
    {JNull, JStr(""), JStr("image/png"), JStr("image/jpeg"), JStr("image/"),
     JStr("IMAGE/PNG"), JStr(" image/png"), JStr("text/plain"),
     JStr("application/octet-stream"), JStr("text/image/png")}

Filenames ==
    {JNull, JStr(""), JStr("receipt.jpg"), JStr("receipt.JPG"), JStr("receipt.jpeg"),
     JStr("scan.png"), JStr("a.gif"), JStr("a.bmp"), JStr("a.webp"), JStr("notes.txt"),
     JStr("receipt"), JStr("receipt.jpg.txt"), JStr(".jpg"), JStr("receipt."),
     JStr("dir.png/file"), JStr("archive.tar.gz"), JStr("jpg"), JStr("receipt.pdf")}

Uploads ==
    [content_type : ContentTypes, filename : Filenames,
     size : {0, 1024, max_file_size, max_file_size + 1}, image : BOOLEAN]

\* what the awaited process_receipt call does with the model: the model
\* answers once with a text that yields a record, or raises
\* json.JSONDecodeError on each attempt
ProcessorTexts == {RecordText(BaseMembers), "not json at all"}

ApiInit ==
    /\ ties_round_up = FALSE
    /\ expense_categories = ExpenseCategories
    /\ pc = "check_file_type"
    /\ file \in Uploads
    /\ status_code = 0
    /\ running = 1
    /\ suspended = NoCall
    /\ attempt = 0
    /\ history = <<>>
    /\ response_text = Unbound
    /\ result = None
    /\ last_error = NoError
    /\ exc = NoError
    /\ ret = None

\* lines 72-82: the file type check, before the try block
CheckFileType ==
    /\ pc = "check_file_type"
    /\ IF ~(content_type_valid(file) \/ extension_valid(file))
       THEN /\ status_code' = 400
            /\ pc' = "responded"
       ELSE /\ pc' = "read"
            /\ UNCHANGED status_code
    /\ UNCHANGED <<attempt, history, response_text, result, last_error, exc, ret, file, running, suspended,
                   expense_categories, ties_round_up>>

\* lines 86-95: read the data and check its size
ReadImageData ==
    /\ pc = "read"
    /\ IF file.size = 0
       THEN /\ exc' = HTTPException(400, "Empty file uploaded")
            /\ pc' = "handler_except"
       ELSE IF file.size > max_file_size
       THEN /\ exc' = HTTPException(400, "File too large. Maximum size is 10MB")
            /\ pc' = "handler_except"
       ELSE /\ pc' = "open"
            /\ UNCHANGED exc
    /\ UNCHANGED <<attempt, history, response_text, result, last_error, ret, file,
                   status_code, running, suspended,
                   expense_categories, ties_round_up>>

\* lines 100-107: open and verify the image
OpenImage ==
    /\ pc = "open"
    /\ IF file.image
       THEN /\ pc' = "process"
            /\ UNCHANGED exc
       ELSE /\ exc' = HTTPException(400, "Invalid image file")
            /\ pc' = "handler_except"
    /\ UNCHANGED <<attempt, history, response_text, result, last_error, ret, file,
                   status_code, running, suspended,
                   expense_categories, ties_round_up>>

\* line 116: await ai_processor.process_receipt(...) returns a record
ProcessorReturns ==
    /\ pc = "process"
    /\ \E text \in ProcessorTexts, pad \in BOOLEAN :
          /\ history' = <<[kind |-> "text", text |-> text]>>
          /\ result' = JObj(process_once(text, pad).v)
    /\ pc' = "respond"
    /\ UNCHANGED <<attempt, response_text, last_error, exc, ret, file, status_code, running, suspended,
                   expense_categories, ties_round_up>>

\* line 116: await ai_processor.process_receipt(...) raises
ProcessorRaises ==
    /\ pc = "process"
    /\ history' = [i \in 1..max_retries |->
                      [kind |-> "raise", type |-> "JSONDecodeError", msg |-> "Expecting value"]]
    /\ exc' = [type |-> "UnboundLocalError",
               msg |-> "cannot access local variable 'response_text' where it is not associated with a value"]
    /\ pc' = "handler_except"
    /\ UNCHANGED <<attempt, response_text, result, last_error, ret, file, status_code, running, suspended,
                   expense_categories, ties_round_up>>

\* lines 119-128: add the metadata and answer 200
Respond ==
    /\ pc = "respond"
    /\ ret' = JObj(DictSet(result.o, "processing_metadata",
                           JObj(("filename" :> file.filename)
                                    @@ ("file_size" :> JNum(100 * file.size, FALSE)))))
    /\ status_code' = 200
    /\ pc' = "responded"
    /\ UNCHANGED <<attempt, history, response_text, result, last_error, exc, file, running, suspended,
                   expense_categories, ties_round_up>>

\* lines 130-132: except HTTPException: raise
ReraiseHTTPException ==
    /\ pc = "handler_except"
    /\ exc.type = "HTTPException"
    /\ status_code' = exc.status_code
    /\ pc' = "responded"
    /\ UNCHANGED <<attempt, history, response_text, result, last_error, exc, ret, file, running, suspended,
                   expense_categories, ties_round_up>>

\* lines 133-138: except Exception: answer 500
RaiseServerError ==
    /\ pc = "handler_except"
    /\ exc.type # "HTTPException"
    /\ status_code' = 500
    /\ pc' = "responded"
    /\ UNCHANGED <<attempt, history, response_text, result, last_error, exc, ret, file, running, suspended,
                   expense_categories, ties_round_up>>

ApiNext ==
    \/ CheckFileType
    \/ ReadImageData
    \/ OpenImage
    \/ ProcessorReturns
    \/ ProcessorRaises
    \/ Respond
    \/ ReraiseHTTPException
    \/ RaiseServerError

ApiSpec == ApiInit /\ [][ApiNext]_vars

------------------------------------------------------------------------------
(* The ways process_receipt ends *)

\* the call has returned a value: at line 168, at line 176 or at line 186
Returned == pc \in {"returned_record", "returned_extracted", "returned_error_record"}

\* field k of the returned value is present and a string
ReturnedStr(k) ==
    /\ ret.t = "obj"
    /\ k \in DOMAIN ret.o
    /\ IsStr(ret.o[k])

\* field k of the returned value is present and a number
ReturnedNum(k) ==
    /\ ret.t = "obj"
    /\ k \in DOMAIN ret.o
    /\ ret.o[k].t = "num"

\* s has the form YYYY-MM-DD and names a day of the calendar
IsCalendarDate(s) ==
    /\ Len(s) = 10
    /\ Ch(s, 5) = "-"
    /\ Ch(s, 8) = "-"
    /\ AllIn(SubSeq(s, 1, 4) \o SubSeq(s, 6, 7) \o SubSeq(s, 9, 10), Digits)
    /\ IntOf(SubSeq(s, 1, 4)) >= 1
    /\ IntOf(SubSeq(s, 6, 7)) \in 1..12
    /\ IntOf(SubSeq(s, 9, 10)) \in
           1..DaysInMonth(IntOf(SubSeq(s, 1, 4)), IntOf(SubSeq(s, 6, 7)))

\* every invocation of the model so far raised a transport error
AllTransportErrors ==
    \A i \in 1..Len(history) :
        history[i].kind = "raise" /\ history[i].type = "ConnectionError"

\* neither strict decoding, nor the repair chain, nor the extraction of the
\* brace span decodes the sanitized form of a response text
Undecodable(text) ==
    /\ ~json_loads(_clean_response_text(Strip(text))).ok
    /\ ~json_loads(_fix_common_json_issues(_clean_response_text(Strip(text)))).ok
    /\ ~json_loads(BraceSpan(_clean_response_text(Strip(text)))).ok

\* one pass of lines 149-168 over a response of the model ends at line 168
YieldsRecord(r) ==
    /\ r.kind = "text"
    /\ r.text # ""
    /\ process_once(r.text, FALSE).ok

\* the record has items whose total_price values sum to a positive amount, a
\* positive total, and the two differ by more than a tenth of the total
ItemsDifferFromTotal(record) ==
    /\ "items" \in DOMAIN record
    /\ record["items"].t = "list"
    /\ record["items"].l # <<>>
    /\ "total_amount" \in DOMAIN record
    /\ record["total_amount"].n > 0
    /\ SumTotalPrice(record["items"].l) > 0
    /\ 10 * Abs(SumTotalPrice(record["items"].l) - record["total_amount"].n)
           > record["total_amount"].n

\* extraction_notes is absent from the record or is a string
NotesAppendable(record) ==
    "extraction_notes" \in DOMAIN record => IsStr(record["extraction_notes"])

------------------------------------------------------------------------------
(* Claims *)

\* C1: process_receipt never raises to its caller, whatever the model does on
\* each attempt (the call raises, returns empty text, undecodable text, or JSON
\* with missing or wrongly typed fields).
C1_NeverRaises == pc # "raised"

\* C2: every record returned by process_receipt contains merchant_name (a
\* non-empty string), transaction_date (a string), total_amount (a
\* non-negative number), currency, category (a string) and confidence (a
\* number), whatever JSON value types the model gave for them.
C2_RequiredFieldsTyped ==
    Returned =>
        /\ ReturnedStr("merchant_name")
        /\ ret.o["merchant_name"].s # ""
        /\ ReturnedStr("transaction_date")
        /\ ReturnedNum("total_amount")
        /\ ret.o["total_amount"].n >= 0
        /\ "currency" \in DOMAIN ret.o
        /\ ReturnedStr("category")
        /\ ReturnedNum("confidence")

\* C3: on every path out of process_receipt the category of the returned
\* record is one of the eight fixed categories.
C3_CategoryInFixedSet ==
    Returned =>
        /\ ReturnedStr("category")
        /\ ret.o["category"].s \in get_category_list

\* C4: on every path out of process_receipt the confidence of the returned
\* record lies in [0, 1].
C4_ConfidenceInUnitInterval ==
    Returned =>
        /\ ReturnedNum("confidence")
        /\ ret.o["confidence"].n \in 0..100

\* C5: on every path out of process_receipt the transaction_date of the
\* returned record is a string YYYY-MM-DD that denotes a valid calendar date.
C5_DateIsCalendarDate ==
    Returned =>
        /\ ReturnedStr("transaction_date")
        /\ IsCalendarDate(ret.o["transaction_date"].s)

\* C6: if the model invocation raises a transport error on every attempt,
\* process_receipt makes exactly 3 invocations, no exception escapes, and it
\* then returns the synthetic error record: merchant_name "Unknown",
\* confidence 0.1 and notes that contain the last attempt's error message.
\* (While only transport errors have been raised the call is in the handler,
\* about to invoke again, or past the loop, and its next step can be taken.)
C6_TransportErrorsExhaustRetries ==
    (AllTransportErrors /\ calls > 0) =>
        /\ calls <= 3
        /\ pc \in {"except", "invoke", "exhausted", "returned_error_record"}
        /\ pc = "except" => ENABLED HandleException
        /\ pc = "invoke" => calls < 3 /\ ENABLED InvokeRaises
        /\ pc = "exhausted" => calls = 3 /\ ENABLED ReturnFallback
        /\ pc = "returned_error_record" =>
              /\ calls = 3
              /\ ret.o["merchant_name"] = JStr("Unknown")
              /\ ret.o["confidence"] = JFloat(10)
              /\ ret.o["extraction_notes"] =
                     JStr("Processing failed: " \o history[3].msg)

\* C6 happens: three transport errors, the last with another message than the
\* first two, and the error record carrying the last one
C6_Witness ==
    /\ pc = "returned_error_record"
    /\ calls = 3
    /\ AllTransportErrors
    /\ history[3].msg # history[2].msg
    /\ history[1].msg = history[2].msg
    /\ ret.o["extraction_notes"].s = "Processing failed: " \o history[3].msg

\* C7: the first attempt whose response yields a record ends the loop: every
\* attempt makes one invocation, and the loop goes on to another attempt only
\* when no response so far yielded a record and none was undecodable text;
\* an undecodable response yields the soft Fallback Record, so on attempt 1 it
\* costs exactly one invocation.
C7_RecordEndsLoop ==
    /\ [](calls = attempt + 1 \/ (calls = attempt /\ pc = "invoke"))
    /\ [][attempt' # attempt =>
             \A i \in 1..Len(history) :
                 /\ ~YieldsRecord(history[i])
                 /\ ~(history[i].kind = "text" /\ history[i].text # ""
                          /\ Undecodable(history[i].text))]_vars
    /\ [](pc = "returned_record" /\ calls = 1 /\ response.text = "not json at all" =>
             /\ Undecodable(response.text)
             /\ YieldsRecord(response)
             /\ ret.o["merchant_name"] = JStr("Unknown"))

\* C7 happens: a first response that is no JSON returned the Fallback Record
\* after one invocation
C7_Witness ==
    /\ pc = "returned_record"
    /\ calls = 1
    /\ response.text = "not json at all"
    /\ ret.o["extraction_notes"] = JStr("Processing failed: Failed to parse AI response")

\* C8: for a response text that cannot be decoded even after repair and
\* extraction, one pass of the pipeline returns a record with merchant_name
\* "Unknown", confidence 0.1 and non-empty extraction_notes.
C8_FallbackConfidence ==
    (pc = "returned_record" /\ Undecodable(response.text)) =>
        /\ ret.o["merchant_name"] = JStr("Unknown")
        /\ ret.o["confidence"] = JFloat(10)
        /\ ReturnedStr("extraction_notes")
        /\ ret.o["extraction_notes"].s # ""

\* C9: sanitizing and parsing the response text RepairText recovers the
\* mapping {merchant_name: "Cafe", total_amount: 5.00} through the repair
\* chain, not the Fallback Record.
C9_RepairRecovers ==
    (pc = "validate" /\ response.text = RepairText) =>
        result = JObj(("merchant_name" :> JStr("Cafe")) @@ ("total_amount" :> JFloat(500)))

\* C10 as stated: whenever a record's items sum and total are positive and
\* differ by more than 10% of the total, the confidence returned by
\* _cross_validate_data is strictly less than the confidence before it and
\* lower by at least 0.2, for every prior confidence in [0, 1].
C10_AsStated ==
    [][(pc = "cross" /\ ItemsDifferFromTotal(result.o) /\ pc' = "return") =>
           /\ result'.o["confidence"].n < result.o["confidence"].n
           /\ result'.o["confidence"].n <= result.o["confidence"].n - 20]_vars

\* C10 amended: for such a record with prior confidence c in [0, 1],
\* _cross_validate_data returns a confidence in [0, max(0, c - 0.2)] when
\* extraction_notes is absent or a string (so at least 0.2 lower when
\* c >= 0.2, strictly lower when c > 0, and 0 when c < 0.2), and raises
\* TypeError, returning no confidence, when extraction_notes is anything else.
C10_PenaltyUpToClamp ==
    [][(pc = "cross" /\ ItemsDifferFromTotal(result.o)) =>
           /\ result.o["confidence"].n \in 0..100
           /\ IF NotesAppendable(result.o)
              THEN /\ pc' = "return"
                   /\ result'.o["confidence"].n >= 0
                   /\ result'.o["confidence"].n
                          <= Max(0, result.o["confidence"].n - 20)
              ELSE /\ pc' = "except"
                   /\ exc'.type = "TypeError"]_vars

\* C10 happens: items summing to 10.0 against a total of 20.0 at confidence
\* 0.1 left cross-validation with confidence 0
C10_Witness ==
    /\ pc = "return"
    /\ ItemsDifferFromTotal(result.o)
    /\ SumTotalPrice(result.o["items"].l) = 1000
    /\ result.o["total_amount"].n = 2000
    /\ result.o["merchant_name"] = JStr("Cafe")
    /\ response.text =
           ObjectText(<<"\"merchant_name\": \"Cafe\"", "\"total_amount\": 20.00",
                        "\"items\": [{\"name\": \"Latte\", \"total_price\": 10.0}]",
                        "", "\"confidence\": 0.1", "">>)
    /\ result.o["confidence"] = JFloat(0)

\* C11: _cross_validate_data never raises confidence: for every validated
\* record, the confidence after cross-validation is less than or equal to the
\* confidence before it.
C11_ConfidenceNeverRaised ==
    [][(pc = "cross" /\ pc' = "return") =>
           /\ result.o["confidence"].t = "num"
           /\ result'.o["confidence"].t = "num"
           /\ result'.o["confidence"].n <= result.o["confidence"].n]_vars

\* C11 happens: a record that draws no penalty left cross-validation with the
\* confidence 0.95 it came with
C11_Witness ==
    /\ pc = "return"
    /\ response.text = RecordText(BaseMembers)
    /\ confidence_adjustments(result.o) = <<>>
    /\ result.o["confidence"] = JFloat(95)

\* C12: _validate_and_enhance_result is idempotent: applied to a record it
\* has produced, on the same platform and with the clock unchanged, it yields
\* an identical record, field for field and item for item.
C12_ValidatorIdempotent ==
    [][(pc = "validate" /\ pc' = "cross") =>
           \A pad \in BOOLEAN :
               _validate_and_enhance_result(result, pad) = Return(result'.o) =>
                   _validate_and_enhance_result(result', pad) = Return(result'.o)]_vars

\* the synonym table of C13: the key, written in lower case, and its category
SynonymCategory ==
    ("grocery" :> "Food") @@ ("gas" :> "Transport") @@ ("fuel" :> "Transport")
        @@ ("pharmacy" :> "Healthcare") @@ ("medical" :> "Healthcare")
        @@ ("retail" :> "Shopping") @@ ("store" :> "Shopping")
        @@ ("restaurant" :> "Food") @@ ("food & dining" :> "Food")

\* the category C13 states for a decoded record
StatedCategory(record) ==
    IF "category" \in DOMAIN record /\ IsStr(record["category"])
    THEN IF record["category"].s \in
                {"Food", "Transport", "Utilities", "Shopping", "Entertainment",
                 "Healthcare", "Education", "Other"}
         THEN record["category"].s
         ELSE IF \E k \in DOMAIN SynonymCategory : Lower(record["category"].s) = k
         THEN SynonymCategory[Lower(record["category"].s)]
         ELSE "Other"
    ELSE "Other"

\* C13: category normalization maps every exact member of the fixed set to
\* itself, every string equal to a synonym-table key ignoring letter case to
\* that key's category, and every other value (unknown text, a non-string, a
\* missing category) to Other.
C13_CategoryNormalization ==
    [][(pc = "call_validate" /\ pc' = "call_cross") =>
           result'.o["category"] = JStr(StatedCategory(result.o))]_vars

\* C13 happens: "GROCERY" was normalized to Food
C13_Witness ==
    /\ pc = "call_cross"
    /\ result.o["category"] = JStr("Food")
    /\ \E pad \in BOOLEAN :
          _validate_and_enhance_result(OneField("category", JStr("GROCERY")), pad)
              = Return(result.o)

\* the formats of C14 in their order: the separator and the order of year,
\* month and day
StatedDateFormats ==
    << [sep |-> "-", order |-> <<"Y", "m", "d">>],    \* YYYY-MM-DD
       [sep |-> "/", order |-> <<"m", "d", "Y">>],    \* MM/DD/YYYY
       [sep |-> "/", order |-> <<"d", "m", "Y">>],    \* DD/MM/YYYY
       [sep |-> "-", order |-> <<"m", "d", "Y">>],    \* MM-DD-YYYY
       [sep |-> "-", order |-> <<"d", "m", "Y">>],    \* DD-MM-YYYY
       [sep |-> "/", order |-> <<"Y", "m", "d">>] >>  \* YYYY/MM/DD

\* the formats of C14 that accept the text s
AcceptingFormats(s) ==
    {i \in 1..Len(StatedDateFormats) : StrptimeDate(Strip(s), StatedDateFormats[i]).ok}

\* the YYYY-MM-DD form of the date the format reads in s
YearMonthDay(s, fmt) ==
    Pad4(StrptimeDate(Strip(s), fmt).y) \o "-" \o Pad2(StrptimeDate(Strip(s), fmt).m)
        \o "-" \o Pad2(StrptimeDate(Strip(s), fmt).d)

\* the date C14 states for a decoded record
StatedDate(record) ==
    IF /\ "transaction_date" \in DOMAIN record
       /\ IsStr(record["transaction_date"])
       /\ AcceptingFormats(record["transaction_date"].s) # {}
    THEN YearMonthDay(record["transaction_date"].s,
             StatedDateFormats[MinOf(AcceptingFormats(record["transaction_date"].s))])
    ELSE Today

\* C14: _validate_date returns the YYYY-MM-DD form of the date parsed by the
\* first of the six formats, in their order, that accepts the input; when no
\* format accepts it, or the value is missing, empty or not a string, it
\* returns the current date and does not raise.
C14_FirstAcceptingFormat ==
    [][(pc = "call_validate" /\ result.t = "obj"
            /\ DOMAIN result.o \subseteq {"transaction_date"}) =>
           /\ pc' = "call_cross"
           /\ result'.o["transaction_date"] = JStr(StatedDate(result.o))]_vars

\* C15: _validate_and_enhance_result never raises on a decoded mapping: for
\* every JSON value type in every field (items entries whose quantity is null,
\* textual or fractional, a category or merchant_name that is no string) it
\* repairs the field, so the attempt does not fail.
C15_ValidatorNeverRaises ==
    [][(pc = "call_validate" /\ result.t = "obj") => pc' = "call_cross"]_vars

\* the upload's content type does not start with "image/" and its filename
\* has none of the six image extensions
BadUpload ==
    /\ ~(file.content_type.t = "str"
            /\ Len(file.content_type.s) >= 6
            /\ SubSeq(file.content_type.s, 1, 6) = "image/")
    /\ ~(file.filename.t = "str"
            /\ \E e \in {".jpg", ".jpeg", ".png", ".gif", ".bmp", ".webp"} :
                  /\ Len(PathName(file.filename.s)) > Len(e)
                  /\ Lower(SubSeq(file.filename.s, Len(file.filename.s) - Len(e) + 1,
                                  Len(file.filename.s))) = e)

\* C16: POST /process-receipt answers 400 and does not invoke the model for
\* an upload whose content type does not start with "image/" and whose
\* filename extension is none of .jpg, .jpeg, .png, .gif, .bmp, .webp; a 400
\* raised for an upload (wrong type, empty, too large, no image) is not turned
\* into a 500 by the generic exception branch: a 500 is answered only after
\* the processor was called.
C16_BadUploadAnswers400 ==
    /\ BadUpload =>
          /\ pc \in {"check_file_type", "responded"}
          /\ calls = 0
          /\ pc = "responded" => status_code = 400
    /\ (pc = "responded" /\ (file.size = 0 \/ file.size > max_file_size \/ ~file.image)) =>
          status_code = 400 /\ calls = 0
    /\ status_code = 500 => calls > 0

\* C16 happens: a text file upload was answered 400
C16_Witness ==
    /\ pc = "responded"
    /\ file.content_type = JStr("text/plain")
    /\ file.filename = JStr("notes.txt")
    /\ file.size = 1024
    /\ status_code = 400
    /\ BadUpload

\* the handler of an exception other than json.JSONDecodeError on attempt i:
\* the Fallback Record after the last attempt (lines 178-186)
AloneAfterError(error, last) ==
    IF last
    THEN [pc |-> "returned_error_record", ret |-> JObj(_create_fallback_result(error.msg))]
    ELSE [pc |-> "retry", ret |-> None]

\* the handler of json.JSONDecodeError (lines 170-176)
AloneAfterJSONDecodeError(text, last) ==
    IF ~last THEN [pc |-> "retry", ret |-> None]
    ELSE IF text.bound
    THEN [pc |-> "returned_extracted", ret |-> _extract_json_from_text(text.s)]
    ELSE [pc |-> "raised", ret |-> None]

\* attempt i of a call that runs alone on the responses h
AloneAttempt(h, i, text, pad) ==
    IF h[i + 1].kind = "raise" /\ h[i + 1].type = "JSONDecodeError"
    THEN AloneAfterJSONDecodeError(text, i = max_retries - 1)
    ELSE IF h[i + 1].kind = "raise"
    THEN AloneAfterError(h[i + 1], i = max_retries - 1)
    ELSE IF h[i + 1].text = ""
    THEN AloneAfterError([msg |-> "Empty response from AI model"], i = max_retries - 1)
    ELSE IF process_once(h[i + 1].text, pad).ok
    THEN [pc |-> "returned_record", ret |-> JObj(process_once(h[i + 1].text, pad).v)]
    ELSE AloneAfterError(process_once(h[i + 1].text, pad).exc, i = max_retries - 1)

\* response_text after attempt i
AloneText(h, i, text) ==
    IF h[i + 1].kind = "text" /\ h[i + 1].text # ""
    THEN Bound(_clean_response_text(Strip(h[i + 1].text)))
    ELSE text

\* how process_receipt ends when it runs alone and the model answers h
RECURSIVE RunAlone(_, _, _, _)
RunAlone(h, i, text, pad) ==
    IF i + 1 > Len(h) THEN [pc |-> "unfinished", ret |-> None]
    ELSE IF AloneAttempt(h, i, text, pad).pc = "retry"
    THEN RunAlone(h, i + 1, AloneText(h, i, text), pad)
    ELSE AloneAttempt(h, i, text, pad)

\* a finished call ended as it would have alone on the responses it got
EndsAsAlone(locals) ==
    Finished(locals.pc) =>
        \E pad \in BOOLEAN :
            RunAlone(locals.history, 0, Unbound, pad) = [pc |-> locals.pc, ret |-> locals.ret]

\* C17: two process_receipt calls that run concurrently on one processor
\* share no mutable state: however their steps interleave, each call ends as
\* it would have ended alone on the responses the model gave to it, what it
\* returned is not changed afterwards by the other call, and the processor's
\* category table is never modified.
C17_CallsShareNoState ==
    /\ [][(~Finished(pc) /\ Finished(pc')) => EndsAsAlone(Locals')]_vars
    /\ [][Finished(pc) => (Locals' = Locals \/ suspended' = Locals)]_vars
    /\ [][Finished(suspended.pc) => suspended' = suspended]_vars
    /\ [](expense_categories = ExpenseCategories)
    /\ [][expense_categories' = expense_categories]_vars

\* C17 happens: both calls are over, one returned the record of its receipt
\* after a retry, the other one raised after three attempts
C17_Witness ==
    /\ running = 1
    /\ pc = "returned_record"
    /\ Len(history) = 2
    /\ suspended.pc = "raised"
    /\ Len(suspended.history) = max_retries
    /\ expense_categories = ExpenseCategories

\* process_receipt has returned to its caller
HasReturned == pc \in {"returned_record", "returned_extracted", "returned_error_record"}

\* the statements of lines 156-165: each is a call that yields a value or an
\* exception, so the call can always take the step
InsideAttempt == pc \in {"clean", "parse", "validate", "cross"}

\* C18: process_receipt invokes the model at most 3 times per call, one
\* invocation at a time (an invocation starts at line 147 only, after the
\* earlier ones have returned or raised: as many as attempts went by), and the
\* call always reaches a return once each invocation returns or raises: the
\* call can take a step until it has returned.
C18_AtMostThreeInvocationsThenReturn ==
    /\ [](calls <= max_retries)
    /\ [][history' # history =>
              /\ pc = "invoke"
              /\ calls = attempt
              /\ history'[Len(history')] \in Responses
              /\ history' = Append(history, history'[Len(history')])]_vars
    /\ [](HasReturned \/ InsideAttempt \/ ENABLED Next)

\* C19: no cross-validation check is fatal: _cross_validate_data completes
\* without raising for every record that _validate_and_enhance_result
\* produced, whatever its extraction_notes and its items are.
C19_CrossValidationNeverRaises ==
    [][pc = "call_cross" => pc' = "done"]_vars

\* a member of a record that cross-validation reads with a default of 0
Amount(record, field) == DictGet(record, field, JNum(0, FALSE)).n

\* items are present, their total_price sum and total_amount are both
\* positive, and |sum - total| / total > 0.10
StatedItemsPenalty(record) ==
    /\ "items" \in DOMAIN record
    /\ record["items"].t = "list"
    /\ record["items"].l # <<>>
    /\ SumTotalPrice(record["items"].l) > 0
    /\ Amount(record, "total_amount") > 0
    /\ 10 * Abs(SumTotalPrice(record["items"].l) - Amount(record, "total_amount"))
           > Amount(record, "total_amount")

\* subtotal and total_amount are both positive and
\* |subtotal + tax + tip - discount - total| / total > 0.05
StatedSubtotalPenalty(record) ==
    /\ Amount(record, "subtotal") > 0
    /\ Amount(record, "total_amount") > 0
    /\ 20 * Abs(Amount(record, "subtotal") + Amount(record, "tax_amount")
                    + Amount(record, "tip_amount") - Amount(record, "discount_amount")
                    - Amount(record, "total_amount"))
           > Amount(record, "total_amount")

\* the sum of the independent penalties as stated, in hundredths
StatedPenalties(record) ==
    (IF StatedItemsPenalty(record) THEN -20 ELSE 0)
        + (IF StatedSubtotalPenalty(record) THEN -10 ELSE 0)
        + (IF Amount(record, "total_amount") > 1000000 THEN -10 ELSE 0)
        + (IF record["merchant_name"] = JStr("Unknown") THEN -20 ELSE 0)

\* C20: the confidence after _cross_validate_data is the prior confidence
\* plus the sum of the independent penalties, clamped to [0, 1]: -0.2 exactly
\* when the items differ from the total by more than 10%, -0.1 exactly when
\* the subtotal with tax, tip and discount differs from the total by more
\* than 5%, -0.1 exactly when the total is above 10000, -0.2 exactly when the
\* merchant is "Unknown"; a value equal to a threshold draws no penalty.
C20_ConfidenceIsPriorPlusPenalties ==
    [][(pc = "call_cross" /\ pc' = "done") =>
          result'.o["confidence"].n =
              Max(0, Min(100, result.o["confidence"].n + StatedPenalties(result.o)))]_vars

\* C21: _parse_json_response returns a mapping (a JSON object) for every
\* input text and never raises: the value that line 159 hands to the validator
\* is never a number, a string, an array, a boolean or null.
C21_ParserReturnsMapping ==
    [][(pc = "parse") => (pc' = "validate" /\ result'.t = "obj")]_vars

\* the text has a '{' that is followed later by a '}'
HasBracePair(text) ==
    Find(text, "{") # -1 /\ RFind(text, "}") > Find(text, "{")

\* C22: _clean_response_text returns "{}" whenever its input is empty or has
\* no brace pair; when a pair exists it returns text that starts at the first
\* '{' and ends at the last '}'.
C22_CleanedTextIsBraceSpan ==
    [][(pc = "clean") =>
          IF HasBracePair(response_text.s)
          THEN /\ Ch(response_text'.s, 1) = "{"
               /\ Ch(response_text'.s, Len(response_text'.s)) = "}"
          ELSE response_text'.s = "{}"]_vars

\* both decodes of the lenient parser fail (lines 240-248)
LenientParseFails(text) ==
    /\ ~json_loads(text).ok
    /\ ~json_loads(_fix_common_json_issues(text)).ok

\* C23: after the lenient parser fails, the extraction fallback looks for the
\* first '{' / last '}' span in the original response text of the model, as it
\* was before sanitization, and decodes that span once: the text that line 251
\* passes to _extract_json_from_text is the text the model answered (stripped
\* at line 152), and the result is the outcome of the extraction on it.
C23_ExtractionReadsOriginalText ==
    [][(pc = "parse" /\ LenientParseFails(response_text.s)) =>
          /\ response_text.s = Strip(response.text)
          /\ result' = _extract_json_from_text(Strip(response.text))]_vars

\* the line items of the returned value: the elements of its items list
ReturnedItems ==
    IF ret.t = "obj" /\ "items" \in DOMAIN ret.o /\ ret.o["items"].t = "list"
    THEN ret.o["items"].l
    ELSE <<>>

\* C24: every line item of a record returned by process_receipt has an
\* integer quantity of at least 1.
C24_QuantityAtLeastOne ==
    Returned =>
        \A i \in 1..Len(ReturnedItems) :
            /\ ReturnedItems[i].t = "obj"
            /\ "quantity" \in DOMAIN ReturnedItems[i].o
            /\ ReturnedItems[i].o["quantity"].t = "num"
            /\ ~ReturnedItems[i].o["quantity"].f
            /\ ReturnedItems[i].o["quantity"].n >= 100

\* an entry of the items list that the statement of C25 keeps: a mapping with
\* a name that is neither empty after trimming nor "Unknown Item"
StatedKept(entry) ==
    /\ entry.t = "obj"
    /\ "name" \in DOMAIN entry.o
    /\ Strip(StrOf(entry.o["name"])) \notin {"", "Unknown Item"}

\* the validated form of the entries that are kept, in their input order
StatedItems(items) ==
    [i \in 1..Len(SelectSeq(items, StatedKept)) |->
        ValidatedItem(SelectSeq(items, StatedKept)[i].o).v]

C26_CurrencyIsThreeLetterCode ==
    Returned =>
        /\ ReturnedStr("currency")
        /\ Len(ret.o["currency"].s) = 3
        /\ AllIn(ret.o["currency"].s, UpperLetters)

\* the simple validator substitutes the current date: transaction_date is
\* missing, null, empty, no string or does not parse as YYYY-MM-DD
DateIsSubstituted(record) ==
    \/ "transaction_date" \notin DOMAIN record
    \/ SimpleDateFails(record["transaction_date"])

\* the confidence of the record as the numeric step types it, before the date
\* is looked at
TypedConfidence(record) ==
    SimpleNumericFields(SimpleFillRequired(record, 1), 1)["confidence"]

\* C27: in the simple validator, when transaction_date is missing, empty or
\* unparseable and the current date is substituted, the confidence of the
\* record is left unchanged.
C27_SimpleDateKeepsConfidence ==
    [][(pc = "call_simple" /\ DateIsSubstituted(result.o)) =>
          /\ result'.o["transaction_date"] = JStr(Today)
          /\ result'.o["confidence"] = TypedConfidence(result.o)]_vars

\* the fields of a record other than confidence and extraction_notes
OtherFields(record) == DOMAIN record \ {"confidence", "extraction_notes"}

\* the notes of the record, the empty text where it has none
ExistingNotes(record) == DictGet(record, "extraction_notes", JStr(""))

\* C28: _cross_validate_data changes only confidence and extraction_notes:
\* every other field and every item of the record is left as it was, and
\* extraction_notes is changed only by appending the items-mismatch note to
\* the existing text, which is kept as a prefix; a call that raises changes
\* nothing.
C28_CrossValidationFrame ==
    [][(pc = "call_cross") =>
          IF pc' = "done"
          THEN /\ OtherFields(result'.o) = OtherFields(result.o)
               /\ \A field \in OtherFields(result.o) : result'.o[field] = result.o[field]
               /\ "confidence" \in DOMAIN result'.o
               /\ \/ /\ "extraction_notes" \in DOMAIN result'.o
                        <=> "extraction_notes" \in DOMAIN result.o
                     /\ ExistingNotes(result'.o) = ExistingNotes(result.o)
                  \/ /\ ItemsMismatch(result.o)
                     /\ IsStr(ExistingNotes(result.o))
                     /\ result'.o["extraction_notes"]
                            = JStr(ExistingNotes(result.o).s \o MismatchNote)
          ELSE result' = result]_vars

\* a record with items that do not add up to its total has been
\* cross-validated: its notes are the text it had, then the note
C28_Witness ==
    /\ pc = "done"
    /\ "items" \in DOMAIN result.o
    /\ "extraction_notes" \in DOMAIN result.o
    /\ result.o["extraction_notes"] = JStr("abc" \o MismatchNote)
    /\ result.o["confidence"] # JFloat(50)

\* the record is what the pipeline yields for the response of this attempt
YieldedByThisAttempt(record) ==
    /\ response.kind = "text"
    /\ response.text # ""
    /\ \E pad \in BOOLEAN :
          /\ process_once(response.text, pad).ok
          /\ record = JObj(process_once(response.text, pad).v)

\* C29: when an attempt of process_receipt returns a record after one or two
\* earlier attempts failed, the record is exactly what the pipeline yields for
\* the response of that attempt alone: the earlier failures leave no
\* extraction note, no confidence penalty and no other trace in it.
C29_RetriedRecordIsOfItsAttempt ==
    [][(attempt >= 1 /\ pc' \in {"returned_record", "returned_extracted"} /\ pc' # pc) =>
          YieldedByThisAttempt(ret')]_vars

\* a response text that is not empty and is "{}" or white space only
SanitizesToEmptyObject(text) ==
    text # "" /\ Strip(text) \in {"", "{}"}

\* the record of defaults after the Unknown-merchant penalty, without notes
AllDefaultRecord ==
    JObj(("merchant_name" :> JStr("Unknown"))
             @@ ("transaction_date" :> JStr(Today))
             @@ ("total_amount" :> JFloat(0))
             @@ ("currency" :> JStr("USD"))
             @@ ("category" :> JStr("Other"))
             @@ ("confidence" :> JFloat(30)))

\* the last response is a text
AnsweredText == calls >= 1 /\ response.kind = "text"

\* C30: a response that is not empty and is sanitized to the empty JSON
\* object ("{}" or text of white space only) is not handled as an empty
\* response: the attempt runs on without a retry and returns the all-default
\* record (merchant_name "Unknown", total_amount 0.0, currency "USD",
\* category "Other") with confidence 0.3 and no extraction_notes; a response
\* whose text is the empty string raises on its attempt, which is used up:
\* the next attempt follows while one is left, the loop ends otherwise.
C30_EmptyObjectIsNotEmptyResponse ==
    /\ []((AnsweredText /\ SanitizesToEmptyObject(response.text)) =>
             /\ calls = attempt + 1
             /\ pc \in {"respond", "clean", "parse", "validate", "cross", "return",
                        "returned_record"}
             /\ pc = "returned_record" => ret = AllDefaultRecord)
    /\ []((AnsweredText /\ response.text = "") =>
             pc \in {"respond", "except", "invoke", "exhausted", "returned_error_record"})
    /\ [][(pc = "respond" /\ response.text = "") =>
             /\ pc' = "except"
             /\ exc'.type = "ValueError"
             /\ UNCHANGED <<attempt, ret, result>>]_vars
    /\ [][(pc = "except" /\ AnsweredText /\ response.text = "") =>
             IF attempt < max_retries - 1
             THEN pc' = "invoke" /\ attempt' = attempt + 1
             ELSE pc' = "exhausted" /\ attempt' = attempt]_vars

\* an empty first response was retried, and the second response, white space
\* only, was returned as the all-default record by the second attempt
C30_Witness ==
    /\ pc = "returned_record"
    /\ calls = 2
    /\ attempt = 1
    /\ history[1] = [kind |-> "text", text |-> ""]
    /\ response = [kind |-> "text", text |-> "   "]
    /\ ret = AllDefaultRecord

====
